---- MODULE Spec2Model ----
(***************************************************************************)
(* A model of src/index.ts, the AST analyzer for Vue and TypeScript files. *)
(*                                                                         *)
(* The analysis functions take a source text, hand it to an external       *)
(* parser (@babel/parser) and walk the syntax tree it returns.  A source   *)
(* text is modelled as the list of the statements written in it, each in   *)
(* the form of the syntax-tree node the parser makes of it; the parser     *)
(* either rejects the text (it throws) or returns the list as              *)
(* ast.program.body.  Nodes are records carrying the fields the code       *)
(* reads, under the names @babel/types gives them.                         *)
(***************************************************************************)
EXTENDS Integers, Sequences, FiniteSets, TLC

VARIABLES
  fn,             \* the exported function being run
  scriptContent,  \* its argument: the source text, as the list of its statements
  sourceChars,    \* the characters of the text that the type printer slices
  typeNode,       \* getTypeAnnotation's argument `node`
  ast,            \* what babelParse returned, Null before
  pc,             \* the position inside the function
  i,              \* index of the next element of ast.program.body (forEach)
  exports,        \* parseExports' local `exports`
  imports,        \* parseImports' local `imports`
  props,          \* parseProps' local `props`
  diag,           \* the console.error calls made so far
  threw,          \* whether an exception is propagating, not yet caught
  ret,            \* the returned value, Null until the function returns
  styleBlocks,    \* extractClassesFromStyle's argument
  selectorSet,    \* its local `selectorSet`, in insertion order
  templateContent,\* extractTagsFromTemplate's argument, as the nodes written in it
  tags,           \* its local `tags`, in insertion order
  file,           \* the file at the path given to analyzeVueFile or analyzeTsFiles
  content,        \* their local `content`
  descriptor,     \* analyzeVueFile's local `descriptor`
  templateTags,   \* analyzeVueFile's local `templateTags`
  styleClasses,   \* analyzeVueFile's local `styleClasses`
  parsed,         \* the texts the call has handed to the script parser so far
  dir,            \* the directory at the path given to getAllFiles or analyzeProject
  extensions,     \* getAllFiles' argument `extensions`
  igonrePaths,    \* getAllFiles' argument `igonrePaths`
  ignoreFiles,    \* getAllFiles' argument `ignoreFiles`
  files,          \* analyzeProject's local `files`
  result          \* analyzeProject's local `result`

styleVars == <<styleBlocks, selectorSet>>

templateVars == <<templateContent, tags>>

fileVars == <<file, content, descriptor, templateTags, styleClasses, parsed>>

projectVars == <<dir, extensions, igonrePaths, ignoreFiles, files, result>>

vars ==
  <<fn, scriptContent, sourceChars, typeNode, ast, pc, i, exports, imports, props, diag, threw,
    ret, styleVars, templateVars, fileVars, projectVars>>

(***************************************************************************)
(* Bounds.                                                                 *)
(***************************************************************************)
\* The size of a source text: the number of its top-level statements, a
\* statement that declares k bindings (declarators, import specifiers)
\* counting k.
MaxBody == 2

\* The size of a type expression: the number of its nodes.
MaxTypeSize == 3

\* The largest offset a node's span records.
MaxOffset == 3

Names == {"a", "b"}

(***************************************************************************)
(* Syntax-tree nodes.                                                      *)
(***************************************************************************)
Null == [type |-> "Null"]

Identifier(n) == [type |-> "Identifier", name |-> n]

\* Top-level statements.
ExportNamedDeclaration(d) == [type |-> "ExportNamedDeclaration", declaration |-> d]

ExportDefaultDeclaration(d) == [type |-> "ExportDefaultDeclaration", declaration |-> d]

ImportDeclaration(specs, src) ==
  [type |-> "ImportDeclaration", specifiers |-> specs, source |-> [value |-> src]]

ExpressionStatement(e) == [type |-> "ExpressionStatement", expression |-> e]

\* Declarations with an id (null for the anonymous default exports
\* `export default function () {}` and `export default class {}`).
Declaration(t, id) == [type |-> t, id |-> id]

VariableDeclarator(id, init) == [type |-> "VariableDeclarator", id |-> id, init |-> init]

VariableDeclaration(ds) == [type |-> "VariableDeclaration", declarations |-> ds]

\* A destructuring pattern; `bound` lists the names it binds.
Pattern(t, bound) == [type |-> t, bound |-> bound]

Expression(t) == [type |-> t]

ImportSpecifier(t, importedName, localName) ==
  [type |-> t, imported |-> importedName, local |-> Identifier(localName)]

(***************************************************************************)
(* Helpers on sequences.                                                   *)
(***************************************************************************)
RECURSIVE Flatten(_)
Flatten(ss) == IF Len(ss) = 0 THEN <<>> ELSE Head(ss) \o Flatten(Tail(ss))

Range(s) == {s[k] : k \in 1..Len(s)}

NoDuplicates(s) == \A p, q \in 1..Len(s) : p # q => s[p] # s[q]

(***************************************************************************)
(* The statements of the texts parseExports is run on, and the parser's    *)
(* verdict on a text: BabelAccepts states the errors @babel/parser raises  *)
(* on a module (text that is no statement, a redeclared binding, a         *)
(* duplicate export, a second default export, an export list naming an     *)
(* undeclared binding), on which it throws instead of returning a tree.    *)
(***************************************************************************)
Declarators ==
  {VariableDeclarator(Identifier(n), init) : n \in Names,
      init \in {Null, Expression("NumericLiteral"),
                Expression("ArrowFunctionExpression"), Expression("FunctionExpression")}}
    \cup {VariableDeclarator(Pattern("ObjectPattern", <<"a">>), Expression("Identifier")),
          VariableDeclarator(Pattern("ObjectPattern", <<"a", "b">>), Expression("Identifier")),
          VariableDeclarator(Pattern("ArrayPattern", <<"b">>), Expression("Identifier"))}

\* Text that is no statement, such as `invalid syntax !@#$`.
Invalid == [type |-> "Invalid"]

\* The statements of size k.
ExportStatements(k) ==
  LET
    \* `export { a } from "mod"` (from = TRUE) and `export { b }`: no declaration.
    ExportList(names, from) ==
      [type |-> "ExportNamedDeclaration", declaration |-> Null, exported |-> names, from |-> from]
    NamedDeclarations ==
      {ExportNamedDeclaration(Declaration(t, Identifier(n))) :
          t \in {"FunctionDeclaration", "ClassDeclaration",
                 "TSTypeAliasDeclaration", "TSInterfaceDeclaration"},
          n \in Names}
        \cup {ExportNamedDeclaration(Declaration("TSEnumDeclaration", Identifier("a"))),
              ExportNamedDeclaration(Declaration("TSDeclareFunction", Identifier("b")))}
    DefaultDeclarations ==
      {ExportDefaultDeclaration(Declaration(t, id)) :
          t \in {"FunctionDeclaration", "ClassDeclaration"},
          id \in {Identifier(n) : n \in Names} \cup {Null}}
        \cup {ExportDefaultDeclaration(Identifier(n)) : n \in Names}
        \cup {ExportDefaultDeclaration(Expression(t)) :
                t \in {"ArrowFunctionExpression", "FunctionExpression",
                       "ClassExpression", "ObjectExpression"}}
    NotExports ==
      {Invalid,
       ImportDeclaration(<<ImportSpecifier("ImportSpecifier", "a", "a")>>, "mod"),
       Declaration("FunctionDeclaration", Identifier("b")),
       VariableDeclaration(<<VariableDeclarator(Identifier("a"), Expression("NumericLiteral"))>>),
       ExpressionStatement(Expression("AssignmentExpression"))}
  IN  {ExportNamedDeclaration(VariableDeclaration(ds)) : ds \in [1..k -> Declarators]}
        \cup IF k = 1
             THEN NamedDeclarations \cup DefaultDeclarations \cup NotExports
                    \cup {[type |-> "ExportAllDeclaration"],
                          ExportList(<<"a">>, TRUE), ExportList(<<"b">>, FALSE)}
             ELSE {}

BindingNames(id) == IF id.type = "Identifier" THEN <<id.name>> ELSE id.bound

\* The names a declaration binds as values in the module scope.
ValueNamesOfDeclaration(d) ==
  IF d.type \in {"FunctionDeclaration", "ClassDeclaration", "TSEnumDeclaration", "TSDeclareFunction"}
  THEN IF d.id = Null THEN <<>> ELSE <<d.id.name>>
  ELSE IF d.type = "VariableDeclaration"
  THEN Flatten([k \in 1..Len(d.declarations) |-> BindingNames(d.declarations[k].id)])
  ELSE <<>>

Declared(node) ==
  IF node.type \in {"ExportNamedDeclaration", "ExportDefaultDeclaration"}
  THEN node.declaration
  ELSE node

ValueNames(node) ==
  IF node.type = "ImportDeclaration"
  THEN [k \in 1..Len(node.specifiers) |-> node.specifiers[k].local.name]
  ELSE ValueNamesOfDeclaration(Declared(node))

BabelAccepts(body) ==
  LET
    ExclusiveTypeNames(node) ==
      LET d == Declared(node)
      IN  IF d.type \in {"TSTypeAliasDeclaration", "TSEnumDeclaration"} THEN <<d.id.name>>
          ELSE IF node.type = "ImportDeclaration" THEN ValueNames(node)
          ELSE <<>>
    MergingTypeNames(node) ==
      LET d == Declared(node)
      IN  IF d.type \in {"TSInterfaceDeclaration", "ClassDeclaration"} /\ d.id # Null
          THEN <<d.id.name>>
          ELSE <<>>
    ExportedNames(node) ==
      IF node.type = "ExportDefaultDeclaration" THEN <<"default">>
      ELSE IF node.type = "ExportNamedDeclaration"
      THEN IF node.declaration = Null THEN node.exported
           ELSE IF node.declaration.type \in {"FunctionDeclaration", "ClassDeclaration",
                                              "VariableDeclaration"}
           THEN ValueNamesOfDeclaration(node.declaration)
           ELSE <<>>
      ELSE <<>>
    LocalExportLists(node) ==
      IF node.type = "ExportNamedDeclaration" /\ node.declaration = Null /\ ~node.from
      THEN node.exported
      ELSE <<>>
    values    == Flatten([k \in 1..Len(body) |-> ValueNames(body[k])])
    exclusive == Flatten([k \in 1..Len(body) |-> ExclusiveTypeNames(body[k])])
    merging   == Flatten([k \in 1..Len(body) |-> MergingTypeNames(body[k])])
  IN  /\ \A k \in 1..Len(body) : body[k] # Invalid
      /\ NoDuplicates(values)
      /\ NoDuplicates(exclusive)
      /\ Range(exclusive) \cap Range(merging) = {}
      /\ Range(Flatten([k \in 1..Len(body) |->
                          IF body[k].type = "ImportDeclaration"
                          THEN ValueNames(body[k]) ELSE <<>>]))
           \cap Range(merging) = {}
      /\ NoDuplicates(Flatten([k \in 1..Len(body) |-> ExportedNames(body[k])]))
      /\ Range(Flatten([k \in 1..Len(body) |-> LocalExportLists(body[k])]))
           \subseteq Range(values) \cup Range(exclusive) \cup Range(merging)

\* babelParse: the tree of a text it accepts
babelParse(text) ==
  IF BabelAccepts(text) THEN [type |-> "File", program |-> [body |-> text]] ELSE Null

\* The call a statement consists of, if any.
CallOf(node) ==
  IF node.type = "ExpressionStatement" THEN node.expression
  ELSE IF node.type = "VariableDeclaration" THEN node.declarations[1].init
  ELSE Null

RECURSIVE Size(_)
Size(text) ==
  LET
    Weight(node) ==
      IF node.type = "ExportNamedDeclaration" /\ node.declaration.type = "VariableDeclaration"
      THEN Len(node.declaration.declarations)
      ELSE IF node.type = "ImportDeclaration" /\ Len(node.specifiers) > 1
      THEN Len(node.specifiers)
      ELSE IF CallOf(node).type = "CallExpression" /\ CallOf(node).typeParameters # Null
              /\ CallOf(node).typeParameters.params[1].type = "TSTypeLiteral"
              /\ Len(CallOf(node).typeParameters.params[1].members) > 1
      THEN Len(CallOf(node).typeParameters.params[1].members)
      ELSE 1
  IN  IF Len(text) = 0 THEN 0 ELSE Weight(Head(text)) + Size(Tail(text))

(***************************************************************************)
(* The module bodies parseImports is run on.                               *)
(***************************************************************************)
ImportStatements(k) ==
  LET
    Sources == {"mod", "./x"}
    Specifiers ==
      {ImportSpecifier("ImportSpecifier", n, n) : n \in Names}
        \cup {ImportSpecifier("ImportSpecifier", "X", n) : n \in Names}
        \cup {ImportSpecifier(t, "", n) :
                t \in {"ImportDefaultSpecifier", "ImportNamespaceSpecifier"}, n \in Names}
    \* The grammar of an import clause: a default specifier comes first, a
    \* namespace specifier stands alone or right after the default.
    ImportClause(specs) ==
      /\ \A p \in 2..Len(specs) : specs[p].type # "ImportDefaultSpecifier"
      /\ \A p \in 1..Len(specs) :
           specs[p].type = "ImportNamespaceSpecifier" =>
             /\ p = Len(specs)
             /\ \A j \in 1..(p - 1) : specs[j].type = "ImportDefaultSpecifier"
    NotImports ==
      {Invalid,
       ExportNamedDeclaration(Declaration("FunctionDeclaration", Identifier("a"))),
       [type |-> "ExportAllDeclaration"],
       ExpressionStatement(Expression("AssignmentExpression"))}
  IN  {ImportDeclaration(specs, src) :
          specs \in {ss \in [1..k -> Specifiers] : ImportClause(ss)}, src \in Sources}
        \cup IF k = 1
             THEN NotImports \cup {ImportDeclaration(<<>>, src) : src \in Sources}
             ELSE {}

(***************************************************************************)
(* parseExports.                                                           *)
(***************************************************************************)
EmptyExports == [functions |-> <<>>, constants |-> <<>>, types |-> <<>>, classes |-> <<>>]

\* Array.prototype.unshift, in place of push.
unshift(list, item) == <<item>> \o list

\* Array.prototype.push
push(list, item) == Append(list, item)

\* nodeDeclaration.declarations.forEach and its callback.
RECURSIVE forEachDeclarator(_, _)
forEachDeclarator(e, items) ==
  LET item == Head(items)
      visited ==
        IF item.id.type = "Identifier"
        THEN IF item.init # Null
                /\ item.init.type \in {"ArrowFunctionExpression", "FunctionExpression"}
             THEN [e EXCEPT !.functions = push(@, item.id.name)]
             ELSE [e EXCEPT !.constants = push(@, item.id.name)]
        ELSE e
  IN  IF Len(items) = 0 THEN e ELSE forEachDeclarator(visited, Tail(items))

\* visitNamedDeclaration without the interface case.
visitNamedDeclarationNoInterface(e, nodeDeclaration) ==
  IF nodeDeclaration.type = "FunctionDeclaration" /\ nodeDeclaration.id # Null
  THEN [e EXCEPT !.functions = push(@, nodeDeclaration.id.name)]
  ELSE IF nodeDeclaration.type = "VariableDeclaration"
  THEN forEachDeclarator(e, nodeDeclaration.declarations)
  ELSE IF nodeDeclaration.type = "TSTypeAliasDeclaration" /\ nodeDeclaration.id # Null
  THEN [e EXCEPT !.types = push(@, nodeDeclaration.id.name)]
  ELSE IF nodeDeclaration.type = "ClassDeclaration" /\ nodeDeclaration.id # Null
  THEN [e EXCEPT !.classes = push(@, nodeDeclaration.id.name)]
  ELSE e

\* The branch of a named export with a declaration.
visitNamedDeclaration(e, nodeDeclaration) ==
  IF nodeDeclaration.type = "FunctionDeclaration" /\ nodeDeclaration.id # Null
  THEN [e EXCEPT !.functions = push(@, nodeDeclaration.id.name)]
  ELSE IF nodeDeclaration.type = "VariableDeclaration"
  THEN forEachDeclarator(e, nodeDeclaration.declarations)
  ELSE IF nodeDeclaration.type \in {"TSTypeAliasDeclaration", "TSInterfaceDeclaration"}
          /\ nodeDeclaration.id # Null
  THEN [e EXCEPT !.types = push(@, nodeDeclaration.id.name)]
  ELSE IF nodeDeclaration.type = "ClassDeclaration" /\ nodeDeclaration.id # Null
  THEN [e EXCEPT !.classes = push(@, nodeDeclaration.id.name)]
  ELSE e

\* The branch of a default export.
visitDefaultDeclaration(e, declaration) ==
  IF declaration.type = "FunctionDeclaration" /\ declaration.id # Null
  THEN [e EXCEPT !.functions = push(@, declaration.id.name)]
  ELSE IF declaration.type = "Identifier"
  THEN [e EXCEPT !.constants = push(@, declaration.name)]
  ELSE IF declaration.type \in {"ArrowFunctionExpression", "FunctionExpression"}
  THEN [e EXCEPT !.functions = push(@, "default")]
  ELSE IF declaration.type = "ClassDeclaration" /\ declaration.id # Null
  THEN [e EXCEPT !.classes = push(@, declaration.id.name)]
  ELSE IF declaration.type = "ClassExpression"
  THEN [e EXCEPT !.classes = push(@, "default")]
  ELSE e

\* visitExportNode listing the names of an export list as constants.
visitExportNodeListsToo(e, node) ==
  IF node.type = "ExportNamedDeclaration" /\ node.declaration # Null
  THEN visitNamedDeclaration(e, node.declaration)
  ELSE IF node.type = "ExportDefaultDeclaration"
  THEN visitDefaultDeclaration(e, node.declaration)
  ELSE IF node.type = "ExportNamedDeclaration"
  THEN [e EXCEPT !.constants = @ \o node.exported]
  ELSE e

\* The callback of ast.program.body.forEach in parseExports.
visitExportNode(e, node) ==
  IF node.type = "ExportNamedDeclaration" /\ node.declaration # Null
  THEN visitNamedDeclaration(e, node.declaration)
  ELSE IF node.type = "ExportDefaultDeclaration"
  THEN visitDefaultDeclaration(e, node.declaration)
  ELSE e

(***************************************************************************)
(* parseImports.                                                           *)
(***************************************************************************)
RECURSIVE forEachSpecifier(_, _, _)
forEachSpecifier(list, specs, node) ==
  IF Len(specs) = 0 THEN list
  ELSE forEachSpecifier(
         push(list, [importedItem |-> Head(specs).local.name, source |-> node.source.value]),
         Tail(specs), node)

\* visitImportNode taking the imported name of a named import, not the local.
visitImportNodeImportedName(list, node) ==
  IF node.type = "ImportDeclaration"
  THEN list \o [k \in 1..Len(node.specifiers) |->
                  [importedItem |-> IF node.specifiers[k].type = "ImportSpecifier"
                                    THEN node.specifiers[k].imported
                                    ELSE node.specifiers[k].local.name,
                   source |-> node.source.value]]
  ELSE list

\* The callback of ast.program.body.forEach in parseImports.
visitImportNode(list, node) ==
  IF node.type = "ImportDeclaration"
  THEN forEachSpecifier(list, node.specifiers, node)
  ELSE list

(***************************************************************************)
(* getTypeAnnotation, the type printer.                                    *)
(*                                                                         *)
(* Its result is a JavaScript value: a string, or undefined for a missing  *)
(* node.  The source text it slices is a sequence of characters.           *)
(***************************************************************************)
undefined == [type |-> "undefined"]

String(s) == [type |-> "string", value |-> s]

\* `${v}`: the string a template literal makes of a value.
Interpolate(v) == IF v = undefined THEN "undefined" ELSE v.value

\* Array.prototype.join: undefined elements are joined as empty strings.
RECURSIVE join(_, _)
join(values, separator) ==
  IF Len(values) = 0 THEN ""
  ELSE LET first == IF Head(values) = undefined THEN "" ELSE Head(values).value
       IN  IF Len(values) = 1 THEN first
           ELSE first \o separator \o join(Tail(values), separator)

\* .filter(Boolean): drops the empty strings.
filterBoolean(values) == SelectSeq(values, LAMBDA v : v # String(""))

Min(x, y) == IF x <= y THEN x ELSE y

\* String.prototype.slice(start, end) for offsets >= 0.
RECURSIVE slice(_, _, _)
slice(chars, start, end) ==
  LET to == Min(end, Len(chars))
  IN  IF start >= to THEN "" ELSE chars[start + 1] \o slice(chars, start + 1, to)

KeywordTypes ==
  [TSNumberKeyword |-> "number", TSStringKeyword |-> "string", TSBooleanKeyword |-> "boolean",
   TSVoidKeyword |-> "void", TSNullKeyword |-> "null", TSUndefinedKeyword |-> "undefined",
   TSAnyKeyword |-> "any", TSUnknownKeyword |-> "unknown", TSNeverKeyword |-> "never",
   TSObjectKeyword |-> "object", TSSymbolKeyword |-> "symbol", TSBigIntKeyword |-> "bigint"]

\* printKeyword with `unknown` printed as its neighbour `any`.
printKeywordUnknownAsAny(type) ==
  String(IF type = "TSUnknownKeyword" THEN "any" ELSE KeywordTypes[type])

\* The cases of the switch, given the printed children.
printKeyword(type) == String(KeywordTypes[type])

\* The function type printed without .filter(Boolean).
printFunctionUnfiltered(params, returnType) ==
  String("(" \o join(params, ", ") \o ") => " \o Interpolate(returnType))

printFunction(params, returnType) ==
  String("(" \o join(filterBoolean(params), ", ") \o ") => " \o Interpolate(returnType))

\* The literal type printed as its source text, value or no value.
printLiteralAlwaysSlice(node, chars) == String(slice(chars, node.start, node.end))

printLiteral(node, chars) ==
  LET
    \* JSON.stringify of a literal's value: a quoted string, a bare number or boolean.
    JSONstringify(v) ==
      CASE v.type = "string"  -> "\"" \o v.value \o "\""
        [] v.type = "number"  -> ToString(v.value)
        [] v.type = "boolean" -> IF v.value THEN "true" ELSE "false"
  IN  IF "value" \in DOMAIN node.literal
      THEN String(JSONstringify(node.literal.value))
      ELSE String(slice(chars, node.start, node.end))

\* printReference joining the type arguments without the space.
printReferenceNoSpace(typeName, params) == String(typeName \o "<" \o join(params, ",") \o ">")

printReference(typeName, params) == String(typeName \o "<" \o join(params, ", ") \o ">")

\* printUnion joining the members without the spaces.
printUnionNoSpace(types) == String(join(types, "|"))

printUnion(types) == String(join(types, " | "))

\* printTypeLiteral without the .filter(Boolean).
printTypeLiteralUnfiltered(members) == String("{ " \o join(members, "; ") \o " }")

printTypeLiteral(members) == String("{ " \o join(filterBoolean(members), "; ") \o " }")

\* printSlice ignoring the offsets of the node.
printSliceWholeText(node, chars) == String(slice(chars, 0, Len(chars)))

printSlice(node, chars) == String(slice(chars, node.start, node.end))

RECURSIVE getTypeAnnotation(_, _)
getTypeAnnotation(node, chars) ==
  IF node = Null THEN undefined
  ELSE IF node.type = "TSTypeAnnotation"
  THEN getTypeAnnotation(node.typeAnnotation, chars)
  ELSE IF node.type \in DOMAIN KeywordTypes
  THEN printKeyword(node.type)
  ELSE IF node.type = "TSArrayType"
  THEN String(Interpolate(getTypeAnnotation(node.elementType, chars)) \o "[]")
  ELSE IF node.type = "TSFunctionType"
  THEN printFunction(
         [k \in 1..Len(node.parameters) |->
            LET param == node.parameters[k]
            IN  IF param.type = "Identifier" /\ param.typeAnnotation # Null
                THEN String(param.name \o ": "
                              \o Interpolate(getTypeAnnotation(param.typeAnnotation, chars)))
                ELSE String("")],
         getTypeAnnotation(node.typeAnnotation, chars))
  ELSE IF node.type = "TSLiteralType"
  THEN printLiteral(node, chars)
  ELSE IF node.type = "TSTypeReference"
  THEN IF node.typeName.type = "Identifier"
       THEN IF node.typeParameters # Null
            THEN printReference(node.typeName.name,
                   [k \in 1..Len(node.typeParameters.params) |->
                      getTypeAnnotation(node.typeParameters.params[k], chars)])
            ELSE String(node.typeName.name)
       ELSE printSlice(node, chars)
  ELSE IF node.type = "TSUnionType"
  THEN printUnion([k \in 1..Len(node.types) |-> getTypeAnnotation(node.types[k], chars)])
  ELSE IF node.type = "TSIntersectionType"
  THEN String(join([k \in 1..Len(node.types) |-> getTypeAnnotation(node.types[k], chars)], " & "))
  ELSE IF node.type = "TSTypeLiteral"
  THEN printTypeLiteral(
         [k \in 1..Len(node.members) |->
            LET member == node.members[k]
            IN  IF member.type = "TSPropertySignature" /\ member.key.type = "Identifier"
                THEN String(member.key.name \o (IF member.optional THEN "?" ELSE "") \o ": "
                              \o Interpolate(getTypeAnnotation(member.typeAnnotation, chars)))
                ELSE String("")])
  ELSE printSlice(node, chars)

\* The nodes getTypeAnnotation(node, ...) calls itself on.
recursiveCalls(node) ==
  CASE node.type = "TSTypeAnnotation" -> {node.typeAnnotation}
    [] node.type = "TSArrayType" -> {node.elementType}
    [] node.type = "TSFunctionType" ->
         {node.parameters[k].typeAnnotation :
            k \in {j \in 1..Len(node.parameters) :
                     /\ node.parameters[j].type = "Identifier"
                     /\ node.parameters[j].typeAnnotation # Null}}
           \cup {node.typeAnnotation}
    [] node.type = "TSTypeReference" ->
         IF node.typeName.type = "Identifier" /\ node.typeParameters # Null
         THEN Range(node.typeParameters.params) ELSE {}
    [] node.type \in {"TSUnionType", "TSIntersectionType"} -> Range(node.types)
    [] node.type = "TSTypeLiteral" ->
         {node.members[k].typeAnnotation :
            k \in {j \in 1..Len(node.members) :
                     /\ node.members[j].type = "TSPropertySignature"
                     /\ node.members[j].key.type = "Identifier"}}
    [] OTHER -> {}

(***************************************************************************)
(* The type nodes getTypeAnnotation is run on, by size.  The operands of   *)
(* a composite type are drawn from a few leaves; the node handed to the    *)
(* printer may be any leaf.                                                *)
(***************************************************************************)
Keyword(t) == [type |-> t]

TSTypeAnnotation(t) == [type |-> "TSTypeAnnotation", typeAnnotation |-> t]

TSArrayType(t) == [type |-> "TSArrayType", elementType |-> t]

TSUnionType(ts) == [type |-> "TSUnionType", types |-> ts]

TSIntersectionType(ts) == [type |-> "TSIntersectionType", types |-> ts]

TSFunctionType(ps, t) ==
  [type |-> "TSFunctionType", parameters |-> ps, typeAnnotation |-> TSTypeAnnotation(t)]

TSTypeLiteral(ms) == [type |-> "TSTypeLiteral", members |-> ms]

\* `A`, `A<T, U>`: typeParameters is null without type arguments.
TSTypeReference(name, params, start, end) ==
  [type |-> "TSTypeReference", typeName |-> name,
   typeParameters |-> IF Len(params) = 0 THEN Null
                      ELSE [type |-> "TSTypeParameterInstantiation", params |-> params],
   start |-> start, end |-> end]

\* `A.B`
TSQualifiedName == [type |-> "TSQualifiedName"]

TSLiteralType(literal, start, end) ==
  [type |-> "TSLiteralType", literal |-> literal, start |-> start, end |-> end]

\* A literal with a value, and one without (a template literal, `-1`).
Literal(t, valueType, v) == [type |-> t, value |-> [type |-> valueType, value |-> v]]

\* A node of a kind the switch does not name: `typeof x`, `(T)`, `[T, U]`.
OtherType(t, start, end) == [type |-> t, start |-> start, end |-> end]

TSPropertySignature(key, optional, annotation) ==
  [type |-> "TSPropertySignature", key |-> key, optional |-> optional,
   typeAnnotation |-> annotation]

Texts == {<<"A", ".", "B">>, <<"-", "1">>}

Spans == {sp \in (0..MaxOffset) \X (0..MaxOffset) : sp[1] <= sp[2]}

OtherMembers ==
  {TSPropertySignature(Identifier("k"), FALSE, Null),
   TSPropertySignature(Expression("StringLiteral"), FALSE,
                       TSTypeAnnotation(Keyword("TSStringKeyword"))),
   [type |-> "TSMethodSignature"]}

RECURSIVE TypeNodes(_), TypeSeqs(_, _), ParameterSeqs(_), MemberSeqs(_)
\* The sequences of `len` types of sizes adding up to m.
TypeSeqs(m, len) ==
  IF len = 0 THEN (IF m = 0 THEN {<<>>} ELSE {})
  ELSE UNION {{<<t>> \o rest : t \in TypeNodes(j), rest \in TypeSeqs(m - j, len - 1)} :
               j \in 1..(m - (len - 1))}

\* The parameter lists of size m: a parameter counts the size of its type,
\* an untyped one counts 1.
ParameterSeqs(m) ==
  LET
    \* Parameters and members that print nothing.
    UntypedParameters ==
      {[type |-> "Identifier", name |-> "q", typeAnnotation |-> Null],
       [type |-> "RestElement"]}
    TypedParameter(name, t) ==
      [type |-> "Identifier", name |-> name, typeAnnotation |-> TSTypeAnnotation(t)]
  IN  IF m = 0 THEN {<<>>}
      ELSE UNION {{<<p>> \o rest :
                     p \in {TypedParameter("p", t) : t \in TypeNodes(j)}
                             \cup (IF j = 1 THEN UntypedParameters ELSE {}),
                     rest \in ParameterSeqs(m - j)} :
                   j \in 1..m}

MemberSeqs(m) ==
  IF m = 0 THEN {<<>>}
  ELSE UNION {{<<p>> \o rest :
                 p \in {TSPropertySignature(Identifier("k"), opt, TSTypeAnnotation(t)) :
                          opt \in BOOLEAN, t \in TypeNodes(j)}
                         \cup (IF j = 1 THEN OtherMembers ELSE {}),
                 rest \in MemberSeqs(m - j)} :
               j \in 1..m}

\* The types of size n.
TypeNodes(n) ==
  LET
    InnerLeaves ==
      {Keyword("TSStringKeyword"), Keyword("TSNumberKeyword"),
       TSTypeReference(Identifier("A"), <<>>, 0, 1),
       TSTypeReference(TSQualifiedName, <<>>, 0, 3),
       TSLiteralType(Literal("StringLiteral", "string", "x"), 0, 3),
       OtherType("TSTypeQuery", 0, 2)}
  IN  IF n = 1 THEN InnerLeaves \cup {TSTypeLiteral(<<>>)}
      ELSE {TSArrayType(ts[1]) : ts \in TypeSeqs(n - 1, 1)}
             \cup UNION {{TSUnionType(ts) : ts \in TypeSeqs(n - 1, len)} : len \in 2..(n - 1)}
             \cup UNION {{TSIntersectionType(ts) : ts \in TypeSeqs(n - 1, len)} : len \in 2..(n - 1)}
             \cup UNION {{TSTypeReference(Identifier("A"), ts, 0, 1) : ts \in TypeSeqs(n - 1, len)} :
                          len \in 1..(n - 1)}
             \cup UNION {{TSFunctionType(ps, t) : ps \in ParameterSeqs(n - 1 - j), t \in TypeNodes(j)} :
                          j \in 1..(n - 1)}
             \cup {TSTypeLiteral(ms) : ms \in MemberSeqs(n - 1)}

\* `Promise<Array<string>>`
PromiseOfArray ==
  TSTypeReference(Identifier("Promise"),
                  <<TSTypeReference(Identifier("Array"), <<Keyword("TSStringKeyword")>>, 8, 21)>>,
                  0, 22)

\* `A & B | string[]`
UnionOfIntersection ==
  TSUnionType(<<TSIntersectionType(<<TSTypeReference(Identifier("A"), <<>>, 0, 1),
                                     TSTypeReference(Identifier("B"), <<>>, 4, 5)>>),
                TSArrayType(Keyword("TSStringKeyword"))>>)

\* `({ a }: A, q, p: string, ...r: string[]) => void`
FunctionOfMixedParameters ==
  TSFunctionType(<<[type |-> "ObjectPattern",
                    typeAnnotation |-> TSTypeAnnotation(TSTypeReference(Identifier("A"), <<>>, 9, 10))],
                   [type |-> "Identifier", name |-> "q", typeAnnotation |-> Null],
                   [type |-> "Identifier", name |-> "p",
                    typeAnnotation |-> TSTypeAnnotation(Keyword("TSStringKeyword"))],
                   [type |-> "RestElement",
                    typeAnnotation |-> TSTypeAnnotation(TSArrayType(Keyword("TSStringKeyword")))]>>,
                 Keyword("TSVoidKeyword"))

TypeRoots ==
  LET
    RootLeaves ==
      {Keyword(t) : t \in DOMAIN KeywordTypes}
        \cup {TSTypeReference(Identifier(n), <<>>, 0, 1) : n \in {"A", "Promise"}}
        \cup {TSLiteralType(l, 0, 2) :
                l \in {Literal("StringLiteral", "string", "x"), Literal("NumericLiteral", "number", 42),
                       Literal("BooleanLiteral", "boolean", TRUE),
                       Literal("BooleanLiteral", "boolean", FALSE),
                       Literal("BigIntLiteral", "string", "10")}}
        \cup {TSLiteralType(Expression(t), sp[1], sp[2]) :
                t \in {"TemplateLiteral", "UnaryExpression"}, sp \in Spans}
        \cup {TSTypeReference(TSQualifiedName, <<>>, sp[1], sp[2]) : sp \in Spans}
        \cup {OtherType(t, sp[1], sp[2]) : t \in {"TSTypeQuery", "TSParenthesizedType"}, sp \in Spans}
  IN  RootLeaves
        \cup {PromiseOfArray, UnionOfIntersection, FunctionOfMixedParameters,
              TSUnionType(<<Keyword("TSStringKeyword"), TSArrayType(Keyword("TSNumberKeyword"))>>)}
        \cup UNION {TypeNodes(n) : n \in 1..MaxTypeSize}
        \cup UNION {{TSTypeAnnotation(t) : t \in TypeNodes(n)} : n \in 1..(MaxTypeSize - 1)}

(***************************************************************************)
(* parseProps.                                                             *)
(***************************************************************************)
\* visitMember taking every prop to be required.
visitMemberAlwaysRequired(list, member, text) ==
  IF member.type = "TSPropertySignature" /\ member.key.type = "Identifier"
  THEN push(list, [name |-> member.key.name,
                   type |-> IF member.typeAnnotation # Null
                            THEN getTypeAnnotation(member.typeAnnotation, text)
                            ELSE undefined,
                   required |-> TRUE])
  ELSE list

\* The body of typeArg.members.forEach.
visitMember(list, member, text) ==
  IF member.type = "TSPropertySignature" /\ member.key.type = "Identifier"
  THEN push(list, [name |-> member.key.name,
                   type |-> IF member.typeAnnotation # Null
                            THEN getTypeAnnotation(member.typeAnnotation, text)
                            ELSE undefined,
                   required |-> ~member.optional])
  ELSE list

RECURSIVE forEachMember(_, _, _)
forEachMember(list, members, text) ==
  IF Len(members) = 0 THEN list
  ELSE forEachMember(visitMember(list, Head(members), text), Tail(members), text)

\* An expression that is a call of the identifier defineProps.
isDefinePropsCall(expr) ==
  /\ expr # Null
  /\ expr.type = "CallExpression"
  /\ expr.callee.type = "Identifier"
  /\ expr.callee.name = "defineProps"

visitCall(list, call, text) ==
  LET typeArg == IF call.typeParameters = Null THEN Null ELSE call.typeParameters.params[1]
  IN  IF typeArg # Null /\ typeArg.type = "TSTypeLiteral"
      THEN forEachMember(list, typeArg.members, text)
      ELSE list

RECURSIVE forEachPropsDeclarator(_, _, _)
forEachPropsDeclarator(list, decls, text) ==
  IF Len(decls) = 0 THEN list
  ELSE forEachPropsDeclarator(
         IF isDefinePropsCall(Head(decls).init)
         THEN visitCall(list, Head(decls).init, text) ELSE list,
         Tail(decls), text)

\* visitPropsNode looking into exported declarations too.
visitPropsNodeUnwrapping(list, stmt, text) ==
  LET node == IF stmt.type = "ExportNamedDeclaration" /\ stmt.declaration # Null
              THEN stmt.declaration ELSE stmt
  IN  IF node.type = "VariableDeclaration"
      THEN forEachPropsDeclarator(list, node.declarations, text)
      ELSE IF node.type = "ExpressionStatement"
      THEN IF isDefinePropsCall(node.expression)
           THEN visitCall(list, node.expression, text) ELSE list
      ELSE list

\* The callback of ast.program.body.forEach in parseProps.
visitPropsNode(list, stmt, text) ==
  IF stmt.type = "VariableDeclaration"
  THEN forEachPropsDeclarator(list, stmt.declarations, text)
  ELSE IF stmt.type = "ExpressionStatement"
  THEN IF isDefinePropsCall(stmt.expression)
       THEN visitCall(list, stmt.expression, text) ELSE list
  ELSE list

(***************************************************************************)
(* The statements of the texts parseProps is run on.  The characters of    *)
(* such a text are kept from the first sliced type on, where offsets       *)
(* count from.                                                             *)
(***************************************************************************)
PropsChars == <<"A", ".", "B">>

CallExpression(callee, typeArgs, args) ==
  [type |-> "CallExpression", callee |-> callee,
   typeParameters |-> IF Len(typeArgs) = 0 THEN Null
                      ELSE [type |-> "TSTypeParameterInstantiation", params |-> typeArgs],
   arguments |-> args]

\* `defineProps<{ ... }>()`
definePropsCall(ms) == CallExpression(Identifier("defineProps"), <<TSTypeLiteral(ms)>>, <<>>)

\* `const props = <init>`
PropsDeclaration(init) == VariableDeclaration(<<VariableDeclarator(Identifier("props"), init)>>)

\* `defineProps<{ name: string; nickname?: string }>()`
NameAndNickname ==
  ExpressionStatement(definePropsCall(
    <<TSPropertySignature(Identifier("name"), FALSE, TSTypeAnnotation(Keyword("TSStringKeyword"))),
      TSPropertySignature(Identifier("nickname"), TRUE,
                          TSTypeAnnotation(Keyword("TSStringKeyword")))>>))

PropsStatements(k) ==
  LET
    PropsMembers ==
      {TSPropertySignature(Identifier("a"), FALSE, TSTypeAnnotation(Keyword("TSStringKeyword"))),
       TSPropertySignature(Identifier("b"), TRUE,
                           TSTypeAnnotation(TSArrayType(Keyword("TSNumberKeyword")))),
       TSPropertySignature(Identifier("a"), TRUE,
                           TSTypeAnnotation(TSTypeReference(TSQualifiedName, <<>>, 0, 3))),
       TSPropertySignature(Identifier("b"), FALSE, Null)}
        \cup {m \in OtherMembers : m.type = "TSMethodSignature" \/ m.key.type # "Identifier"}
    \* defineProps calls that are not the expression of a top-level statement
    \* nor the initializer of a top-level declarator:
    \* `export const props = defineProps<{ a: string }>()`,
    \* `function a() { defineProps<{ a: string }>() }`,
    \* `const props = () => defineProps<{ a: string }>()`;
    \* and `const props = defineProps<{ a: string }>(), x = 1`.
    NestedCalls ==
      LET call == definePropsCall(<<TSPropertySignature(Identifier("a"), FALSE,
                                       TSTypeAnnotation(Keyword("TSStringKeyword")))>>)
      IN  {ExportNamedDeclaration(PropsDeclaration(call)),
           [type |-> "FunctionDeclaration", id |-> Identifier("a"),
            body |-> <<ExpressionStatement(call)>>],
           PropsDeclaration([type |-> "ArrowFunctionExpression", body |-> call]),
           VariableDeclaration(<<VariableDeclarator(Identifier("props"), call),
                                 VariableDeclarator(Identifier("x"),
                                                    Expression("NumericLiteral"))>>)}
    \* Calls of other shapes.
    OtherCalls ==
      LET ms == <<TSPropertySignature(Identifier("a"), FALSE,
                                      TSTypeAnnotation(Keyword("TSStringKeyword")))>>
      IN  {CallExpression(Identifier("defineEmits"), <<TSTypeLiteral(ms)>>, <<>>),
           CallExpression(Expression("MemberExpression"), <<TSTypeLiteral(ms)>>, <<>>),
           CallExpression(Identifier("defineProps"), <<>>, <<>>),
           CallExpression(Identifier("defineProps"),
                          <<TSTypeReference(Identifier("A"), <<>>, 0, 1)>>, <<>>),
           CallExpression(Identifier("defineProps"),
                          <<TSTypeLiteral(ms), Keyword("TSStringKeyword")>>, <<>>),
           CallExpression(Identifier("withDefaults"), <<>>,
                          <<definePropsCall(ms), Expression("ObjectExpression")>>)}
  IN  {ExpressionStatement(definePropsCall(ms)) : ms \in [1..k -> PropsMembers]}
        \cup {PropsDeclaration(definePropsCall(ms)) : ms \in [1..k -> PropsMembers]}
        \cup (IF k = 2 THEN {NameAndNickname} ELSE {})
        \cup IF k = 1
             THEN {ExpressionStatement(c) : c \in OtherCalls}
                    \cup {PropsDeclaration(c) : c \in OtherCalls}
                    \cup NestedCalls
                    \cup {Invalid, PropsDeclaration(Null),
                          ExportNamedDeclaration(Declaration("FunctionDeclaration", Identifier("a")))}
             ELSE {}

(***************************************************************************)
(* The functions, step by step.                                            *)
(***************************************************************************)
\* A catch block that logs nothing.
catchLogSilent(f, debug) == <<>>

catchLog(f, debug) ==
  LET
    \* The message of the first console.error of the catch block.
    ErrorMessage ==
      CASE f = "parseExports" -> "Error parsing exports:"
        [] f = "parseImports" -> "Error parsing imports:"
        [] f = "parseProps"   -> "Error parsing props:"
        [] f = "analyzeVueFile" -> "Error analyzing Vue file"
        [] f = "analyzeTsFiles" -> "Error analyzing TS file"
  IN  IF debug THEN <<ErrorMessage, "Stack trace:">> ELSE <<ErrorMessage>>

catchReturn(f) ==
  CASE f = "parseExports" -> EmptyExports
    [] f = "parseImports" -> <<>>
    [] f = "parseProps"   -> <<>>
    [] f = "analyzeVueFile" ->
         [imports |-> <<>>, templateTags |-> <<>>, props |-> <<>>, styleClasses |-> <<>>]
    [] f = "analyzeTsFiles" -> [imports |-> <<>>, exports |-> EmptyExports]

Returned(v) == [type |-> "Returned", value |-> v]

\* The variables of the functions that are not being run.
NoScript ==
  /\ scriptContent = <<>>
  /\ sourceChars = <<>>
  /\ typeNode = Null
  /\ exports = EmptyExports
  /\ imports = <<>>
  /\ props = <<>>

NoStyle == styleBlocks = <<>> /\ selectorSet = <<>>

NoTemplate == templateContent = <<>> /\ tags = <<>>

NoFile ==
  /\ file = Null
  /\ content = Null
  /\ descriptor = Null
  /\ templateTags = <<>>
  /\ styleClasses = <<>>
  /\ parsed = <<>>

NoProject ==
  /\ dir = <<>>
  /\ extensions = <<>>
  /\ igonrePaths = <<>>
  /\ ignoreFiles = <<>>
  /\ files = <<>>
  /\ result = <<>>

\* The source text starts empty and is handed to one of the functions.
Init ==
  /\ fn \in {"parseExports", "parseImports", "parseProps"}
  /\ scriptContent = <<>>
  /\ sourceChars = IF fn = "parseProps" THEN PropsChars ELSE <<>>
  /\ typeNode = Null
  /\ ast = Null
  /\ pc = "source"
  /\ i = 1
  /\ exports = EmptyExports
  /\ imports = <<>>
  /\ props = <<>>
  /\ diag = <<>>
  /\ threw = FALSE
  /\ ret = Null
  /\ NoStyle /\ NoTemplate /\ NoFile /\ NoProject

\* The text under analysis holds one more statement.
Source ==
  /\ pc = "source"
  /\ \E k \in 1..(MaxBody - Size(scriptContent)) :
       \E s \in CASE fn = "parseExports" -> ExportStatements(k)
                  [] fn = "parseImports" -> ImportStatements(k)
                  [] fn = "parseProps"   -> PropsStatements(k) :
          scriptContent' = Append(scriptContent, s)
  /\ UNCHANGED <<fn, sourceChars, typeNode, ast, pc, i, exports, imports, props, diag, threw, ret>>
  /\ UNCHANGED <<styleVars, templateVars, fileVars, projectVars>>

\* The function is called on the text and enters its try block.
Call ==
  /\ pc = "source"
  /\ pc' = "try"
  /\ UNCHANGED <<fn, scriptContent, sourceChars, typeNode, ast, i, exports, imports, props, diag, threw, ret>>
  /\ UNCHANGED <<styleVars, templateVars, fileVars, projectVars>>

\* babelParse(scriptContent, ...): returns the tree, or throws: the
\* exception propagates to the catch block.
BabelParse ==
  /\ pc = "try"
  /\ ast' = babelParse(scriptContent)
  /\ threw' = (ast' = Null)
  /\ pc' = IF threw' THEN "catch" ELSE "forEach"
  /\ UNCHANGED <<fn, scriptContent, sourceChars, typeNode, i, exports, imports, props, diag, ret>>
  /\ UNCHANGED <<styleVars, templateVars, fileVars, projectVars>>

\* One call of the callback of ast.program.body.forEach.
ForEachNode ==
  /\ pc = "forEach"
  /\ i <= Len(ast.program.body)
  /\ i' = i + 1
  /\ exports' = IF fn = "parseExports"
                THEN visitExportNode(exports, ast.program.body[i]) ELSE exports
  /\ imports' = IF fn = "parseImports"
                THEN visitImportNode(imports, ast.program.body[i]) ELSE imports
  /\ props' = IF fn = "parseProps"
              THEN visitPropsNode(props, ast.program.body[i], sourceChars) ELSE props
  /\ UNCHANGED <<fn, scriptContent, sourceChars, typeNode, ast, pc, diag, threw, ret>>
  /\ UNCHANGED <<styleVars, templateVars, fileVars, projectVars>>

\* `return exports;`, `return imports;`, `return props;`
Return ==
  /\ pc = "forEach"
  /\ i > Len(ast.program.body)
  /\ ret' = Returned(CASE fn = "parseExports" -> exports
                        [] fn = "parseImports" -> imports
                        [] fn = "parseProps"   -> props)
  /\ pc' = "done"
  /\ UNCHANGED <<fn, scriptContent, sourceChars, typeNode, ast, i, exports, imports, props, diag, threw>>
  /\ UNCHANGED <<styleVars, templateVars, fileVars, projectVars>>

\* The catch block: the exception is caught, console.error is called
\* (twice when process.env.DEBUG is set) and the empty result returned.
Catch ==
  /\ pc = "catch"
  /\ threw' = FALSE
  /\ \E debug \in BOOLEAN : diag' = diag \o catchLog(fn, debug)
  /\ ret' = Returned(catchReturn(fn))
  /\ pc' = "done"
  /\ UNCHANGED <<fn, scriptContent, sourceChars, typeNode, ast, i, exports, imports, props>>
  /\ UNCHANGED <<styleVars, templateVars, fileVars, projectVars>>

Next == Source \/ Call \/ BabelParse \/ ForEachNode \/ Return \/ Catch

Spec == Init /\ [][Next]_vars

(***************************************************************************)
(* A call of getTypeAnnotation(node, scriptContent).                       *)
(***************************************************************************)
TypeInit ==
  /\ fn = "getTypeAnnotation"
  /\ scriptContent = <<>>
  /\ sourceChars \in Texts
  /\ typeNode \in TypeRoots
  /\ ast = Null
  /\ pc = "call"
  /\ i = 1
  /\ exports = EmptyExports
  /\ imports = <<>>
  /\ props = <<>>
  /\ diag = <<>>
  /\ threw = FALSE
  /\ ret = Null
  /\ NoStyle /\ NoTemplate /\ NoFile /\ NoProject

GetTypeAnnotation ==
  /\ pc = "call"
  /\ fn = "getTypeAnnotation"
  /\ ret' = Returned(getTypeAnnotation(typeNode, sourceChars))
  /\ pc' = "done"
  /\ UNCHANGED <<fn, scriptContent, sourceChars, typeNode, ast, i, exports, imports, props, diag, threw>>
  /\ UNCHANGED <<styleVars, templateVars, fileVars, projectVars>>

TypeSpec == TypeInit /\ [][GetTypeAnnotation]_vars

(***************************************************************************)
(* Properties of parseExports, parseImports and parseProps.                *)
(***************************************************************************)
\* A step of the forEach loop of function f, on the statement Visited.
Visits(f) == pc = "forEach" /\ fn = f /\ i' = i + 1

Visited == ast.program.body[i]

\* Function f has returned the analysis of a text the parser accepted.
Analysed(f) == pc = "done" /\ fn = f /\ ast # Null

\* s is t with some elements left out: the elements of s keep t's order.
RECURSIVE IsSubsequence(_, _)
IsSubsequence(s, t) ==
  IF Len(s) = 0 THEN TRUE
  ELSE IF Len(t) = 0 THEN FALSE
  ELSE IF Head(s) = Head(t) THEN IsSubsequence(Tail(s), Tail(t))
  ELSE IsSubsequence(s, Tail(t))

ListOfDeclaration ==
  [FunctionDeclaration |-> "functions", TSTypeAliasDeclaration |-> "types",
   TSInterfaceDeclaration |-> "types", ClassDeclaration |-> "classes"]

TypeAndInterface ==
  <<ExportNamedDeclaration(Declaration("TSTypeAliasDeclaration", Identifier("a"))),
    ExportNamedDeclaration(Declaration("TSInterfaceDeclaration", Identifier("b")))>>

IsFunctionExpression(init) ==
  init.type \in {"ArrowFunctionExpression", "FunctionExpression"}

\* The names the declarators bind, in order: those initialised with a
\* function expression (wanted = TRUE), or the others.
BindingsOf(declarations, wanted) ==
  Flatten([k \in 1..Len(declarations) |->
             IF IsFunctionExpression(declarations[k].init) = wanted
             THEN BindingNames(declarations[k].id) ELSE <<>>])

\* C2: a named export wrapping a variable declaration appends every
\* binding it declares to exactly one list: to functions when its
\* initializer is an arrow or function expression, to constants otherwise;
\* no binding is left out.
C2_EveryBindingListed ==
  [][(/\ Visits("parseExports")
      /\ Visited.type = "ExportNamedDeclaration"
      /\ Visited.declaration.type = "VariableDeclaration")
     => exports' = [exports EXCEPT
                      !.functions = @ \o BindingsOf(Visited.declaration.declarations, TRUE),
                      !.constants = @ \o BindingsOf(Visited.declaration.declarations, FALSE)]]_vars

\* The list and the name the claim gives each default export.
DefaultExportEntry(d) ==
  CASE d.type = "FunctionDeclaration" ->
         <<"functions", IF d.id = Null THEN "default" ELSE d.id.name>>
    [] d.type \in {"ArrowFunctionExpression", "FunctionExpression"} ->
         <<"functions", "default">>
    [] d.type = "Identifier" -> <<"constants", d.name>>
    [] d.type = "ClassDeclaration" ->
         <<"classes", IF d.id = Null THEN "default" ELSE d.id.name>>
    [] d.type = "ClassExpression" -> <<"classes", "default">>

\* C3: a default export of a function appends its name, or 'default' when
\* it is anonymous, to functions; of a bare identifier its name to
\* constants; of a class its name, or 'default' when it is anonymous, to
\* classes; exactly one name is added.
C3_DefaultExportListed ==
  [][(/\ Visits("parseExports")
      /\ Visited.type = "ExportDefaultDeclaration"
      /\ Visited.declaration.type \in
           {"FunctionDeclaration", "ArrowFunctionExpression", "FunctionExpression",
            "Identifier", "ClassDeclaration", "ClassExpression"})
     => LET entry == DefaultExportEntry(Visited.declaration)
        IN  exports' = [exports EXCEPT ![entry[1]] = Append(@, entry[2])]]_vars

\* The import declarations of a text, and the item of specifier j of
\* declaration d.
ImportsOf(text) == SelectSeq(text, LAMBDA n : n.type = "ImportDeclaration")

ItemOf(d, j) == [importedItem |-> d.specifiers[j].local.name, source |-> d.source.value]

\* C4: parseImports returns one item per import specifier, no more: each
\* item pairs a specifier's local name (never the imported name of a
\* renamed import) with the source of its declaration, and an import
\* without specifiers contributes nothing.
C4_OneItemPerSpecifier ==
  Analysed("parseImports") =>
    LET decls == ImportsOf(scriptContent)
        items == ret.value
    IN  /\ Len(items) = Len(Flatten([k \in 1..Len(decls) |-> decls[k].specifiers]))
        /\ \A k \in 1..Len(decls) : \A j \in 1..Len(decls[k].specifiers) :
             \E p \in 1..Len(items) : items[p] = ItemOf(decls[k], j)
        /\ \A p \in 1..Len(items) :
             /\ \E k \in 1..Len(decls) : \E j \in 1..Len(decls[k].specifiers) :
                  items[p] = ItemOf(decls[k], j)
             /\ items[p].importedItem # "X"

C4_Witness ==
  /\ Analysed("parseImports")
  /\ scriptContent = <<ImportDeclaration(<<>>, "./x"),
                       ImportDeclaration(<<ImportSpecifier("ImportSpecifier", "X", "b")>>, "mod")>>
  /\ ret.value = <<[importedItem |-> "b", source |-> "mod"]>>

\* The names a statement can export, in the order it declares them.
DeclaredNames(n) ==
  IF n.type = "ExportNamedDeclaration" /\ n.declaration # Null
  THEN IF n.declaration.type = "VariableDeclaration"
       THEN ValueNamesOfDeclaration(n.declaration)
       ELSE <<n.declaration.id.name>>
  ELSE IF n.type = "ExportDefaultDeclaration"
  THEN IF n.declaration.type = "Identifier" THEN <<n.declaration.name>>
       ELSE IF "id" \in DOMAIN n.declaration /\ n.declaration.id # Null
       THEN <<n.declaration.id.name>>
       ELSE <<"default">>
  ELSE <<>>

\* C5: the names in each list parseExports returns, and the items
\* parseImports returns, stand in the order of the declarations and
\* specifiers of the source.
C5_SourceOrder ==
  /\ Analysed("parseExports") =>
       \A list \in DOMAIN EmptyExports :
         IsSubsequence(ret.value[list],
                       Flatten([k \in 1..Len(scriptContent) |-> DeclaredNames(scriptContent[k])]))
  /\ Analysed("parseImports") =>
       IsSubsequence(ret.value,
         LET decls == ImportsOf(scriptContent)
         IN  Flatten([k \in 1..Len(decls) |->
                        [j \in 1..Len(decls[k].specifiers) |-> ItemOf(decls[k], j)]]))

C5_Witness ==
  /\ Analysed("parseExports")
  /\ ret.value.functions = <<"a", "b">>
  /\ Len(scriptContent) = 2

\* C6: no list parseExports returns holds a name twice.
C6_NoDuplicateInList ==
  Analysed("parseExports") => \A list \in DOMAIN EmptyExports : NoDuplicates(ret.value[list])

Listed(e) == Len(e.functions) + Len(e.constants) + Len(e.types) + Len(e.classes)

\* A named export wrapping a function, variable, type-alias, interface or
\* class declaration.
WrapsListedDeclaration(node) ==
  /\ node.type = "ExportNamedDeclaration"
  /\ node.declaration # Null
  /\ node.declaration.type \in {"FunctionDeclaration", "VariableDeclaration",
                                "TSTypeAliasDeclaration", "TSInterfaceDeclaration",
                                "ClassDeclaration"}

\* The number of bindings a statement exports under a name of its own.
ExportedBindings(node) ==
  IF node.type = "ExportDefaultDeclaration" THEN 1
  ELSE IF node.type # "ExportNamedDeclaration" THEN 0
  ELSE IF node.declaration = Null THEN Len(node.exported)
  ELSE IF node.declaration.type = "VariableDeclaration"
  THEN Len(Flatten([k \in 1..Len(node.declaration.declarations) |->
                      BindingNames(node.declaration.declarations[k].id)]))
  ELSE 1

RECURSIVE ExportedBindingsOf(_)
ExportedBindingsOf(body) ==
  IF Len(body) = 0 THEN 0
  ELSE ExportedBindings(Head(body)) + ExportedBindingsOf(Tail(body))

\* C28: parseExports adds names only for named exports that wrap a
\* declaration of a function, variable, type alias, interface or class and
\* for default exports; every other top-level statement leaves the four
\* lists as they are; no statement adds more names than it exports
\* bindings, so the names returned are no more than the bindings exported.
C28_OnlyExportsAddNames ==
  /\ [][Visits("parseExports") =>
         /\ (~WrapsListedDeclaration(Visited) /\ Visited.type # "ExportDefaultDeclaration")
              => exports' = exports
         /\ Listed(exports) <= Listed(exports')
         /\ Listed(exports') - Listed(exports) <= ExportedBindings(Visited)
         /\ diag' = diag]_vars
  /\ [](Analysed("parseExports") =>
          Listed(ret.value) <= ExportedBindingsOf(ast.program.body))

\* `export { a } from "mod"; export enum a {}` gives four empty lists.
C28_Witness ==
  /\ Analysed("parseExports")
  /\ Len(scriptContent) = 2
  /\ scriptContent[1].type = "ExportNamedDeclaration"
  /\ scriptContent[1].declaration = Null
  /\ scriptContent[2].type = "ExportNamedDeclaration"
  /\ scriptContent[2].declaration # Null
  /\ scriptContent[2].declaration.type = "TSEnumDeclaration"
  /\ ret = Returned(EmptyExports)

\* The call has the callee `defineProps` and exactly one type argument,
\* an inline object type.
IsPropsCall(call) ==
  /\ call.type = "CallExpression"
  /\ call.callee.type = "Identifier"
  /\ call.callee.name = "defineProps"
  /\ call.typeParameters # Null
  /\ Len(call.typeParameters.params) = 1
  /\ call.typeParameters.params[1].type = "TSTypeLiteral"

\* The PropItems of the members of an object type, in member order.
RECURSIVE PropItemsOf(_)
PropItemsOf(members) ==
  IF Len(members) = 0 THEN <<>>
  ELSE LET m == Head(members)
       IN  (IF m.type = "TSPropertySignature" /\ m.key.type = "Identifier"
            THEN <<[name |-> m.key.name,
                    type |-> IF m.typeAnnotation = Null THEN undefined
                             ELSE getTypeAnnotation(m.typeAnnotation, sourceChars),
                    required |-> (m.optional = FALSE)]>>
            ELSE <<>>)
             \o PropItemsOf(Tail(members))

\* C13: a defineProps call with one inline object type argument appends
\* exactly one PropItem per simple named property signature of that type,
\* in member order: the key as name, required iff not optional, and as
\* type the printed annotation, or none without an annotation; the text
\* `defineProps<{ name: string; nickname?: string }>()` yields
\* [{name:'name',type:'string',required:true},
\*  {name:'nickname',type:'string',required:false}].
C13_OnePropItemPerNamedMember ==
  /\ [][(Visits("parseProps") /\ IsPropsCall(CallOf(Visited)))
        => props' = props \o PropItemsOf(CallOf(Visited).typeParameters.params[1].members)]_vars
  /\ [](Analysed("parseProps") /\ scriptContent = <<NameAndNickname>>
          => ret = Returned(<<[name |-> "name", type |-> String("string"), required |-> TRUE],
                              [name |-> "nickname", type |-> String("string"),
                               required |-> FALSE]>>))

C13_Witness ==
  /\ Analysed("parseProps")
  /\ scriptContent = <<NameAndNickname>>
  /\ Len(ret.value) = 2
  /\ ret.value[2] = [name |-> "nickname", type |-> String("string"), required |-> FALSE]

\* C14: a statement whose call is not a call of the identifier defineProps
\* with exactly one type argument, an inline object type, adds no PropItem
\* and logs nothing.
C14_OtherCallsAddNothing ==
  [][(Visits("parseProps") /\ ~IsPropsCall(CallOf(Visited)))
     => props' = props /\ diag' = diag]_vars

\* The expression is a call of the identifier defineProps.
CallsDefineProps(expr) ==
  /\ expr # Null
  /\ expr.type = "CallExpression"
  /\ expr.callee.type = "Identifier"
  /\ expr.callee.name = "defineProps"

\* The defineProps calls a top-level statement consists of, in order: the
\* expression of an expression statement, the initializers of the
\* declarators of a variable declaration.
TopLevelCalls(stmt) ==
  IF stmt.type = "ExpressionStatement"
  THEN IF CallsDefineProps(stmt.expression) THEN <<stmt.expression>> ELSE <<>>
  ELSE IF stmt.type = "VariableDeclaration"
  THEN Flatten([k \in 1..Len(stmt.declarations) |->
                  IF CallsDefineProps(stmt.declarations[k].init)
                  THEN <<stmt.declarations[k].init>> ELSE <<>>])
  ELSE <<>>

\* What a call adds as the expression of a statement, and as the
\* initializer of a declarator.
ItemsOfStatement(call) == visitPropsNode(<<>>, ExpressionStatement(call), sourceChars)

ItemsOfDeclarator(call) == visitPropsNode(<<>>, PropsDeclaration(call), sourceChars)

RECURSIVE ItemsOfBody(_)
ItemsOfBody(body) ==
  IF Len(body) = 0 THEN <<>>
  ELSE Flatten([k \in 1..Len(TopLevelCalls(Head(body))) |->
                  ItemsOfStatement(TopLevelCalls(Head(body))[k])])
         \o ItemsOfBody(Tail(body))

\* C29: parseProps looks at top-level statements only: each step appends
\* the items of the defineProps calls that are the expression of the
\* statement or the initializer of one of its declarators, in source order,
\* a call adding the same items in either form; a statement with no such
\* call (the call being an argument of another call, inside an exported
\* declaration or inside a function) adds nothing; the props returned are
\* the items of the top-level calls in source order.
C29_TopLevelCallsOnly ==
  /\ [][Visits("parseProps") =>
         /\ props' = props \o ItemsOfBody(<<Visited>>)
         /\ \A k \in 1..Len(TopLevelCalls(Visited)) :
              ItemsOfStatement(TopLevelCalls(Visited)[k])
                = ItemsOfDeclarator(TopLevelCalls(Visited)[k])
         /\ TopLevelCalls(Visited) = <<>> => props' = props]_vars
  /\ [](Analysed("parseProps") => ret = Returned(ItemsOfBody(ast.program.body)))

\* `export const props = defineProps<{ a: string }>(); defineProps<{ a: string }>()`
\* gives the one item of the second statement.
C29_Witness ==
  /\ Analysed("parseProps")
  /\ Len(scriptContent) = 2
  /\ scriptContent[1].type = "ExportNamedDeclaration"
  /\ scriptContent[1].declaration.type = "VariableDeclaration"
  /\ CallsDefineProps(scriptContent[1].declaration.declarations[1].init)
  /\ scriptContent[2].type = "ExpressionStatement"
  /\ TopLevelCalls(scriptContent[2]) # <<>>
  /\ ret = Returned(<<[name |-> "a", type |-> String("string"), required |-> TRUE]>>)

(***************************************************************************)
(* Properties of getTypeAnnotation.                                        *)
(***************************************************************************)
Printed == pc = "done" /\ fn = "getTypeAnnotation"

\* The strings joined by a separator, built from the last one back.
RECURSIVE JoinedBy(_, _)
JoinedBy(strings, separator) ==
  IF Len(strings) = 0 THEN ""
  ELSE IF Len(strings) = 1 THEN strings[1]
  ELSE JoinedBy(SubSeq(strings, 1, Len(strings) - 1), separator)
         \o separator \o strings[Len(strings)]

\* The characters of the text from offset `from` up to offset `to`.
Subtext(text, from, to) == JoinedBy(SubSeq(text, from + 1, Min(to, Len(text))), "")

\* The printed forms of a list of types.
PrintedTypes(ts) == [k \in 1..Len(ts) |-> getTypeAnnotation(ts[k], sourceChars).value]

\* The type nodes of a type expression.
RECURSIVE TypesWithin(_)
TypesWithin(t) ==
  {t} \cup
    CASE t.type = "TSTypeAnnotation" -> TypesWithin(t.typeAnnotation)
      [] t.type = "TSArrayType" -> TypesWithin(t.elementType)
      [] t.type \in {"TSUnionType", "TSIntersectionType"} ->
           UNION {TypesWithin(t.types[k]) : k \in 1..Len(t.types)}
      [] t.type = "TSTypeReference" /\ t.typeParameters # Null ->
           UNION {TypesWithin(t.typeParameters.params[k]) :
                    k \in 1..Len(t.typeParameters.params)}
      [] t.type = "TSFunctionType" ->
           TypesWithin(t.typeAnnotation)
             \cup UNION {IF t.parameters[k].type = "Identifier"
                            /\ t.parameters[k].typeAnnotation # Null
                         THEN TypesWithin(t.parameters[k].typeAnnotation) ELSE {} :
                           k \in 1..Len(t.parameters)}
      [] t.type = "TSTypeLiteral" ->
           UNION {IF t.members[k].type = "TSPropertySignature"
                     /\ t.members[k].typeAnnotation # Null
                  THEN TypesWithin(t.members[k].typeAnnotation) ELSE {} :
                    k \in 1..Len(t.members)}
      [] OTHER -> {}

\* What the printer makes of a node of the expression printed: the value
\* returned for the expression itself, the printer's value for a part.
PrintOf(t) == IF t = typeNode THEN ret.value ELSE getTypeAnnotation(t, sourceChars)

KeywordOf ==
  [TSNumberKeyword |-> "number", TSStringKeyword |-> "string", TSBooleanKeyword |-> "boolean",
   TSVoidKeyword |-> "void", TSNullKeyword |-> "null", TSUndefinedKeyword |-> "undefined",
   TSAnyKeyword |-> "any", TSUnknownKeyword |-> "unknown", TSNeverKeyword |-> "never",
   TSObjectKeyword |-> "object", TSSymbolKeyword |-> "symbol", TSBigIntKeyword |-> "bigint"]

\* C8: a node of one of the twelve keyword kinds prints as exactly the
\* keyword of its kind, whatever the source text, and nodes of two
\* different kinds print differently.
C8_KeywordPrintsItself ==
  (Printed /\ typeNode.type \in DOMAIN KeywordOf) =>
    /\ ret = Returned(String(KeywordOf[typeNode.type]))
    /\ \A text \in Texts :
         /\ getTypeAnnotation(typeNode, text) = ret.value
         /\ \A t \in DOMAIN KeywordOf \ {typeNode.type} :
              getTypeAnnotation(Keyword(t), text) # ret.value

C8_Witness ==
  /\ Printed
  /\ typeNode = Keyword("TSUnknownKeyword")
  /\ sourceChars = <<"-", "1">>
  /\ ret = Returned(String("unknown"))

\* C9: at every depth of the expression printed, an array type prints as
\* its element type followed by "[]", a union as its members joined by
\* " | " and an intersection as its members joined by " & ", in order.
C9_CompositesPrintTheirParts ==
  Printed =>
    \A t \in TypesWithin(typeNode) :
      /\ t.type = "TSArrayType" =>
           PrintOf(t) = String(getTypeAnnotation(t.elementType, sourceChars).value \o "[]")
      /\ t.type = "TSUnionType" =>
           PrintOf(t) = String(JoinedBy(PrintedTypes(t.types), " | "))
      /\ t.type = "TSIntersectionType" =>
           PrintOf(t) = String(JoinedBy(PrintedTypes(t.types), " & "))

C9_Witness ==
  /\ Printed
  /\ typeNode = UnionOfIntersection
  /\ ret = Returned(String("A & B | string[]"))

\* C10: a type reference whose name is an identifier prints as the name,
\* followed, if it has type arguments, by "<", the printed arguments
\* joined by ", " and ">"; one whose name is not an identifier prints as
\* the source text between its start and end offsets.
C10_ReferencePrintsNameAndArguments ==
  (Printed /\ typeNode.type = "TSTypeReference") =>
    /\ (typeNode.typeName.type = "Identifier" /\ typeNode.typeParameters = Null) =>
         ret = Returned(String(typeNode.typeName.name))
    /\ (typeNode.typeName.type = "Identifier" /\ typeNode.typeParameters # Null) =>
         ret = Returned(String(typeNode.typeName.name \o "<"
                                 \o JoinedBy(PrintedTypes(typeNode.typeParameters.params), ", ")
                                 \o ">"))
    /\ typeNode.typeName.type # "Identifier" =>
         ret = Returned(String(Subtext(sourceChars, typeNode.start, typeNode.end)))
    /\ typeNode = PromiseOfArray => ret = Returned(String("Promise<Array<string>>"))

C10_Witness ==
  /\ Printed
  /\ typeNode = PromiseOfArray
  /\ ret = Returned(String("Promise<Array<string>>"))

\* The members of an object-literal type that are named property
\* signatures, each rendered as the printer is to render it.
RECURSIVE RenderedMembers(_)
RenderedMembers(members) ==
  IF Len(members) = 0 THEN <<>>
  ELSE LET m == Head(members)
       IN  (IF m.type = "TSPropertySignature" /\ m.key.type = "Identifier"
            THEN <<m.key.name \o (IF m.optional THEN "?" ELSE "") \o ": "
                     \o (IF m.typeAnnotation = Null THEN "undefined"
                         ELSE getTypeAnnotation(m.typeAnnotation, sourceChars).value)>>
            ELSE <<>>)
             \o RenderedMembers(Tail(members))

\* C11: at every depth of the expression printed, an object-literal type
\* prints as "{ ", its named property signatures joined by "; ", and " }";
\* a named property signature is its name, "?" iff it is optional, ": " and
\* its printed type; every other member adds neither a segment nor a
\* separator.
C11_TypeLiteralPrintsNamedMembers ==
  Printed =>
    \A t \in TypesWithin(typeNode) :
      t.type = "TSTypeLiteral" =>
        PrintOf(t) = String("{ " \o JoinedBy(RenderedMembers(t.members), "; ") \o " }")

C11_Witness ==
  /\ Printed
  /\ typeNode = TSTypeLiteral(<<[type |-> "TSMethodSignature"],
                                TSPropertySignature(Identifier("k"), TRUE,
                                                    TSTypeAnnotation(Keyword("TSStringKeyword")))>>)
  /\ ret = Returned(String("{ k?: string }"))

\* The type nodes held in the fields of a type node.
FieldNodes(t) ==
  (IF "typeAnnotation" \in DOMAIN t THEN {t.typeAnnotation} ELSE {})
    \cup (IF "elementType" \in DOMAIN t THEN {t.elementType} ELSE {})
    \cup (IF "types" \in DOMAIN t THEN Range(t.types) ELSE {})
    \cup (IF "typeParameters" \in DOMAIN t /\ t.typeParameters # Null
          THEN Range(t.typeParameters.params) ELSE {})
    \cup (IF "parameters" \in DOMAIN t
          THEN UNION {IF "typeAnnotation" \in DOMAIN t.parameters[k]
                      THEN {t.parameters[k].typeAnnotation} ELSE {} :
                        k \in 1..Len(t.parameters)}
          ELSE {})
    \cup (IF "members" \in DOMAIN t
          THEN UNION {IF "typeAnnotation" \in DOMAIN t.members[k]
                      THEN {t.members[k].typeAnnotation} ELSE {} :
                        k \in 1..Len(t.members)}
          ELSE {})

RecognisedTypes ==
  DOMAIN KeywordOf
    \cup {"TSTypeAnnotation", "TSArrayType", "TSFunctionType", "TSLiteralType",
          "TSTypeReference", "TSUnionType", "TSIntersectionType", "TSTypeLiteral"}

\* C12: the printer can always be run on a type node and returns a string;
\* every call it makes on itself is on a node held in a field of the node
\* at hand, never on that node; a node of an unrecognised kind prints as
\* the source text from its start offset to its end offset.
C12_PrinterIsTotal ==
  /\ (pc = "call" /\ fn = "getTypeAnnotation") => ENABLED GetTypeAnnotation
  /\ Printed =>
       /\ ret.value.type = "string"
       /\ \A t \in TypesWithin(typeNode) :
            /\ PrintOf(t).type = "string"
            /\ \A c \in recursiveCalls(t) : c # t /\ c \in FieldNodes(t)
       /\ typeNode.type \notin RecognisedTypes =>
            ret = Returned(String(Subtext(sourceChars, typeNode.start, typeNode.end)))

C12_Witness ==
  /\ Printed
  /\ typeNode = OtherType("TSTypeQuery", 1, 3)
  /\ sourceChars = <<"A", ".", "B">>
  /\ ret = Returned(String(".B"))

\* The parameters of a function type that are identifiers with a type
\* annotation, each rendered as the printer is to render it.
RECURSIVE RenderedParameters(_)
RenderedParameters(params) ==
  IF Len(params) = 0 THEN <<>>
  ELSE LET p == Head(params)
       IN  (IF p.type = "Identifier" /\ p.typeAnnotation # Null
            THEN <<p.name \o ": " \o getTypeAnnotation(p.typeAnnotation, sourceChars).value>>
            ELSE <<>>)
             \o RenderedParameters(Tail(params))

\* C26: at every depth of the expression printed, a function type prints as
\* "(", its parameters joined by ", ", ") => " and its printed return type;
\* a parameter that is an identifier with a type annotation is its name,
\* ": " and its printed type, in parameter order; every other parameter
\* (untyped, rest, destructured) adds neither a segment nor a separator.
C26_FunctionPrintsTypedParameters ==
  Printed =>
    \A t \in TypesWithin(typeNode) :
      t.type = "TSFunctionType" =>
        PrintOf(t) = String("(" \o JoinedBy(RenderedParameters(t.parameters), ", ") \o ") => "
                              \o getTypeAnnotation(t.typeAnnotation, sourceChars).value)

C26_Witness ==
  /\ Printed
  /\ typeNode = FunctionOfMixedParameters
  /\ ret = Returned(String("(p: string) => void"))

\* The JSON text of a literal's value: a string between double quotes, a
\* number in digits, a boolean as true or false.
JSONText(v) ==
  IF v.type = "string" THEN "\"" \o v.value \o "\""
  ELSE IF v.type = "number" THEN ToString(v.value)
  ELSE IF v.value THEN "true" ELSE "false"

\* C27: at every depth of the expression printed, a literal type whose
\* literal carries a value prints as the JSON text of that value, whatever
\* the source text is, and a literal type whose literal carries no value
\* prints as the source text between its start and end offsets.
C27_LiteralPrintsItsValue ==
  Printed =>
    \A t \in TypesWithin(typeNode) :
      t.type = "TSLiteralType" =>
        IF "value" \in DOMAIN t.literal
        THEN /\ PrintOf(t) = String(JSONText(t.literal.value))
             /\ \A text \in Texts : getTypeAnnotation(t, text) = PrintOf(t)
        ELSE PrintOf(t) = String(Subtext(sourceChars, t.start, t.end))

C27_Witness ==
  /\ Printed
  /\ typeNode = TSLiteralType(Literal("StringLiteral", "string", "x"), 0, 2)
  /\ sourceChars = <<"-", "1">>
  /\ ret = Returned(String("\"x\""))

(***************************************************************************)
(* extractClassesFromStyle.  A string is the sequence of its characters.   *)
(***************************************************************************)
MaxStyleLen == 4

WhiteSpace == {" ", "\n", "\t"}

Letters ==
  {"a", "b", "c", "d", "e", "f", "g", "h", "i", "j", "k", "l", "m", "n", "o", "p",
    "q", "r", "s", "t", "u", "v", "w", "x", "y", "z", "A", "B", "C", "D", "E", "F",
    "G", "H", "I", "J", "K", "L", "M", "N", "O", "P", "Q", "R", "S", "T", "U", "V",
    "W", "X", "Y", "Z"}

Digits == {"0", "1", "2", "3", "4", "5", "6", "7", "8", "9"}

\* String.prototype.trim
RECURSIVE trimStart(_)
trimStart(str) ==
  IF Len(str) > 0 /\ Head(str) \in WhiteSpace THEN trimStart(Tail(str)) ELSE str

RECURSIVE trimEnd(_)
trimEnd(str) ==
  IF Len(str) > 0 /\ str[Len(str)] \in WhiteSpace
  THEN trimEnd(SubSeq(str, 1, Len(str) - 1)) ELSE str

trim(str) == trimEnd(trimStart(str))

\* String.prototype.split with a one-character separator: the pieces
\* between the separators, empty pieces included.
RECURSIVE split(_, _)
split(str, separator) ==
  IF \A k \in 1..Len(str) : str[k] # separator THEN <<str>>
  ELSE LET p == CHOOSE k \in 1..Len(str) :
                  str[k] = separator /\ \A j \in 1..(k - 1) : str[j] # separator
       IN  <<SubSeq(str, 1, p - 1)>> \o split(SubSeq(str, p + 1, Len(str)), separator)

\* String.prototype.split(/\s+/): the pieces between the runs of white
\* space, an empty piece before a leading and after a trailing run.
RECURSIVE splitWhiteSpace(_)
splitWhiteSpace(str) ==
  IF \A k \in 1..Len(str) : str[k] \notin WhiteSpace THEN <<str>>
  ELSE LET p == CHOOSE k \in 1..Len(str) :
                  str[k] \in WhiteSpace /\ \A j \in 1..(k - 1) : str[j] \notin WhiteSpace
       IN  <<SubSeq(str, 1, p - 1)>>
             \o splitWhiteSpace(trimStart(SubSeq(str, p, Len(str))))

\* .filter(part => part): drops the empty strings.
filterTruthy(strs) == SelectSeq(strs, LAMBDA str : str # <<>>)

\* selectorMatch with a group that runs up to the last brace of the line.
selectorMatchLastBrace(line) ==
  IF \E p \in 2..Len(line) : line[p] = "{" /\ line[1] # "{"
  THEN LET p == CHOOSE k \in 2..Len(line) :
                  line[k] = "{" /\ \A j \in (k + 1)..Len(line) : line[j] # "{"
       IN  <<SubSeq(line, 1, p), SubSeq(line, 1, p - 1)>>
  ELSE <<>>

\* line.match(/^([^{]+)\s*{/): the match and its group, or nothing (null).
\* The group takes every character before the first brace, of which there
\* must be one.
selectorMatch(line) ==
  IF \E p \in 2..Len(line) : line[p] = "{" /\ \A j \in 1..(p - 1) : line[j] # "{"
  THEN LET p == CHOOSE k \in 2..Len(line) :
                  line[k] = "{" /\ \A j \in 1..(k - 1) : line[j] # "{"
       IN  <<SubSeq(line, 1, p), SubSeq(line, 1, p - 1)>>
  ELSE <<>>

\* Set.prototype.add: a set keeps its elements in insertion order.
addNoCheck(set, value) == Append(set, value)

add(set, value) == IF value \in Range(set) THEN set ELSE Append(set, value)

RECURSIVE forEachPart(_, _)
forEachPart(set, parts) ==
  IF Len(parts) = 0 THEN set
  ELSE forEachPart(IF Head(parts) # <<>> THEN add(set, Head(parts)) ELSE set, Tail(parts))

RECURSIVE forEachSelector(_, _)
forEachSelector(set, selectors) ==
  IF Len(selectors) = 0 THEN set
  ELSE forEachSelector(
         IF Head(selectors) # <<>>
         THEN forEachPart(set, filterTruthy(splitWhiteSpace(Head(selectors))))
         ELSE set,
         Tail(selectors))

\* The callback of lines.forEach.
visitLine(set, line) ==
  LET match == selectorMatch(line)
  IN  IF Len(match) > 0 /\ match[2] # <<>>
      THEN LET parts == split(match[2], ",")
           IN  forEachSelector(set, [k \in 1..Len(parts) |-> trim(parts[k])])
      ELSE set

RECURSIVE forEachLine(_, _)
forEachLine(set, lines) ==
  IF Len(lines) = 0 THEN set ELSE forEachLine(visitLine(set, Head(lines)), Tail(lines))

\* The callback of styleBlocks.forEach.
visitBlock(set, block) ==
  LET lines == split(block.content, "\n")
  IN  forEachLine(set, [k \in 1..Len(lines) |-> trim(lines[k])])

\* /^[a-zA-Z][a-zA-Z0-9]*$/.test(selector)
isAlphanumeric(selector) ==
  /\ Len(selector) > 0
  /\ selector[1] \in Letters
  /\ \A k \in 2..Len(selector) : selector[k] \in Letters \cup Digits

\* classify testing for a colon before testing for the leading dot.
classifyColonFirst(selector) ==
  IF \E k \in 1..Len(selector) : selector[k] = ":"
  THEN [type |-> "pseudo", name |-> selector]
  ELSE IF Len(selector) > 0 /\ selector[1] = "."
  THEN [type |-> "class", name |-> selector]
  ELSE IF isAlphanumeric(selector)
  THEN [type |-> "element", name |-> selector]
  ELSE [type |-> "other", name |-> selector]

\* The callback of [...selectorSet].map.
classify(selector) ==
  IF Len(selector) > 0 /\ selector[1] = "."
  THEN [type |-> "class", name |-> selector]
  ELSE IF \E k \in 1..Len(selector) : selector[k] = ":"
  THEN [type |-> "pseudo", name |-> selector]
  ELSE IF isAlphanumeric(selector)
  THEN [type |-> "element", name |-> selector]
  ELSE [type |-> "other", name |-> selector]

\* `.a:hover{} div,span{}`
HoverDivSpan ==
  <<".", "a", ":", "h", "o", "v", "e", "r", "{", "}", " ", "d", "i", "v", ",", "s",
    "p", "a", "n", "{", "}">>

\* `.button:hover { }` and, on the next line, `a:visited { }`
ButtonHover ==
  <<".", "b", "u", "t", "t", "o", "n", ":", "h", "o", "v", "e", "r", " ", "{", " ",
    "}", "\n", "a", ":", "v", "i", "s", "i", "t", "e", "d", " ", "{", " ", "}">>

\* `.a,` and, on the next line, `.b{`
ContinuedSelectorList == <<".", "a", ",", "\n", ".", "b", "{">>

StyleBlock(str) == [content |-> str]

\* The number of characters of the blocks.
RECURSIVE StyleLen(_)
StyleLen(blocks) ==
  IF Len(blocks) = 0 THEN 0 ELSE Len(Head(blocks).content) + StyleLen(Tail(blocks))

\* A call of extractClassesFromStyle(styleBlocks), on no block or on one
\* whole text.
StyleInit ==
  /\ fn = "extractClassesFromStyle"
  /\ styleBlocks \in
       {<<>>, <<StyleBlock(HoverDivSpan)>>, <<StyleBlock(ButtonHover)>>,
        <<StyleBlock(ContinuedSelectorList)>>,
        \* `h1, #x > p {`
        <<StyleBlock(<<"h", "1", ",", " ", "#", "x", " ", ">", " ", "p", " ", "{">>)>>}
  /\ selectorSet = <<>>
  /\ ast = Null
  /\ pc = "source"
  /\ i = 1
  /\ diag = <<>>
  /\ threw = FALSE
  /\ ret = Null
  /\ NoScript /\ NoTemplate /\ NoFile /\ NoProject

\* The list holds one more block, still empty: no more blocks than half the
\* characters written.
NewBlock ==
  /\ pc = "source"
  /\ Len(styleBlocks) < MaxStyleLen \div 2
  /\ styleBlocks' = Append(styleBlocks, StyleBlock(<<>>))
  /\ UNCHANGED <<fn, scriptContent, sourceChars, typeNode, ast, pc, i, exports, imports, props,
                 diag, threw, ret, selectorSet, templateVars, fileVars,
                 projectVars>>

\* The last block holds one more character.
WriteStyle ==
  /\ pc = "source"
  /\ Len(styleBlocks) > 0
  /\ StyleLen(styleBlocks) < MaxStyleLen
  /\ \E c \in {".", ":", "a", ",", " ", "{", "\n"} :
       styleBlocks' = [styleBlocks EXCEPT ![Len(styleBlocks)].content = Append(@, c)]
  /\ UNCHANGED <<fn, scriptContent, sourceChars, typeNode, ast, pc, i, exports, imports, props,
                 diag, threw, ret, selectorSet, templateVars, fileVars,
                 projectVars>>

\* The function is called: `const selectorSet = new Set<string>();`
CallStyle ==
  /\ pc = "source"
  /\ selectorSet' = <<>>
  /\ pc' = "forEach"
  /\ UNCHANGED <<fn, scriptContent, sourceChars, typeNode, ast, i, exports, imports, props,
                 diag, threw, ret, styleBlocks, templateVars, fileVars,
                 projectVars>>

\* One call of the callback of styleBlocks.forEach.
ForEachBlock ==
  /\ pc = "forEach"
  /\ i <= Len(styleBlocks)
  /\ selectorSet' = visitBlock(selectorSet, styleBlocks[i])
  /\ i' = i + 1
  /\ UNCHANGED <<fn, scriptContent, sourceChars, typeNode, ast, pc, exports, imports, props,
                 diag, threw, ret, styleBlocks, templateVars, fileVars,
                 projectVars>>

\* `return [...selectorSet].map(...)`
ReturnSelectors ==
  /\ pc = "forEach"
  /\ i > Len(styleBlocks)
  /\ ret' = Returned([k \in 1..Len(selectorSet) |-> classify(selectorSet[k])])
  /\ pc' = "done"
  /\ UNCHANGED <<fn, scriptContent, sourceChars, typeNode, ast, i, exports, imports, props,
                 diag, threw, styleVars, templateVars, fileVars,
                 projectVars>>

StyleSpec ==
  StyleInit /\ [][NewBlock \/ WriteStyle \/ CallStyle \/ ForEachBlock \/ ReturnSelectors]_vars

(***************************************************************************)
(* Properties of extractClassesFromStyle.                                  *)
(***************************************************************************)
StyleDone == pc = "done" /\ fn = "extractClassesFromStyle"

\* C15: the style text `.a:hover{} div,span{}`, two rules on one line,
\* yields the tokens of both selector lists:
\* [{class '.a:hover'}, {element 'div'}, {element 'span'}].
C15_RulesSharingALine ==
  (StyleDone /\ styleBlocks = <<StyleBlock(HoverDivSpan)>>) =>
    ret = Returned(<<[type |-> "class", name |-> <<".", "a", ":", "h", "o", "v", "e", "r">>],
                     [type |-> "element", name |-> <<"d", "i", "v">>],
                     [type |-> "element", name |-> <<"s", "p", "a", "n">>]>>)

StartsWithDot(name) == Len(name) > 0 /\ name[1] = "."

HasColon(name) == ":" \in Range(name)

LetterThenLettersOrDigits(name) ==
  /\ Len(name) > 0
  /\ Range(name) \subseteq Letters \cup Digits
  /\ name[1] \notin Digits

\* C16: every returned token has exactly one type: 'class' iff it starts
\* with '.'; 'pseudo' iff it does not and contains ':'; 'element' iff
\* neither holds and it is a letter followed only by letters and digits;
\* 'other' in every remaining case.  So `.button:hover` is a class and
\* `a:visited` a pseudo.
C16_TypeByFirstMatchingRule ==
  StyleDone =>
    \A k \in 1..Len(ret.value) :
      LET name == ret.value[k].name
          type == ret.value[k].type
      IN  /\ type \in {"class", "pseudo", "element", "other"}
          /\ type = "class" <=> StartsWithDot(name)
          /\ type = "pseudo" <=> (~StartsWithDot(name) /\ HasColon(name))
          /\ type = "element" <=>
               (~StartsWithDot(name) /\ ~HasColon(name) /\ LetterThenLettersOrDigits(name))

C16_Witness ==
  /\ StyleDone
  /\ styleBlocks = <<StyleBlock(ButtonHover)>>
  /\ ret = Returned(<<[type |-> "class",
                       name |-> <<".", "b", "u", "t", "t", "o", "n", ":", "h", "o", "v", "e", "r">>],
                      [type |-> "pseudo",
                       name |-> <<"a", ":", "v", "i", "s", "i", "t", "e", "d">>]>>)

\* The tokens of a line, of a block and of the blocks, in the order they
\* are written: comma parts left to right, and within one the parts the
\* white space separates.
TokensOfLine(line) ==
  LET match == selectorMatch(trim(line))
      parts == IF Len(match) = 0 THEN <<>> ELSE split(match[2], ",")
  IN  Flatten([k \in 1..Len(parts) |-> filterTruthy(splitWhiteSpace(trim(parts[k])))])

TokensOfBlock(block) ==
  LET lines == split(block.content, "\n")
  IN  Flatten([k \in 1..Len(lines) |-> TokensOfLine(lines[k])])

TokensOfBlocks == Flatten([k \in 1..Len(styleBlocks) |-> TokensOfBlock(styleBlocks[k])])

\* The place where a token is first met.
FirstMet(token, tokens) == CHOOSE k \in 1..Len(tokens) :
                             tokens[k] = token /\ \A j \in 1..(k - 1) : tokens[j] # token

\* C17: no two returned Selectors have the same name, every token met is
\* returned, and the Selectors stand in the order their tokens are first
\* met, scanning the blocks in order, the lines top to bottom, the comma
\* parts and the parts between white space left to right.
C17_UniqueInFirstEncounterOrder ==
  StyleDone =>
    LET names == [k \in 1..Len(ret.value) |-> ret.value[k].name]
    IN  /\ NoDuplicates(names)
        /\ Range(names) = Range(TokensOfBlocks)
        /\ \A k \in 1..Len(names) : \A j \in 1..(k - 1) :
             FirstMet(names[j], TokensOfBlocks) < FirstMet(names[k], TokensOfBlocks)

C17_Witness ==
  /\ StyleDone
  /\ styleBlocks = <<StyleBlock(<<".", "{">>), StyleBlock(<<".", "{">>)>>
  /\ ret = Returned(<<[type |-> "class", name |-> <<".">>]>>)

\* The text of a line before its first opening brace; nothing when the
\* line has no brace.
BeforeFirstBrace(line) ==
  IF "{" \notin Range(line) THEN <<>>
  ELSE SubSeq(line, 1, (CHOOSE p \in 1..Len(line) :
                          line[p] = "{" /\ \A j \in 1..(p - 1) : line[j] # "{") - 1)

\* The tokens of a text: the parts between its commas, and of each the
\* parts between white space.
TokensOfText(text) ==
  LET parts == split(text, ",")
  IN  Flatten([k \in 1..Len(parts) |-> filterTruthy(splitWhiteSpace(trim(parts[k])))])

\* The lines of a block, trimmed.
TrimmedLines(block) ==
  LET lines == split(block.content, "\n") IN [k \in 1..Len(lines) |-> trim(lines[k])]

\* C30: extractClassesFromStyle works line by line: the tokens a block adds
\* are those of the text before the first opening brace of each of its
\* trimmed lines, a line adding tokens only if it has an opening brace with
\* at least one character before it and a line without a brace adding
\* nothing; every returned name is non-empty and has no white space, comma
\* or opening brace in it.
C30_LineByLineUpToFirstBrace ==
  /\ [][(pc = "forEach" /\ fn = "extractClassesFromStyle" /\ i' = i + 1) =>
         LET lines == TrimmedLines(styleBlocks[i])
         IN  /\ Range(selectorSet') =
                  Range(selectorSet)
                    \cup UNION {Range(TokensOfText(BeforeFirstBrace(lines[k]))) :
                                 k \in 1..Len(lines)}
             /\ \A k \in 1..Len(lines) :
                  /\ visitLine(<<>>, lines[k]) # <<>> =>
                       \E p \in 2..Len(lines[k]) : lines[k][p] = "{"
                  /\ "{" \notin Range(lines[k]) => visitLine(selectorSet, lines[k]) = selectorSet]_vars
  /\ [](StyleDone =>
          \A k \in 1..Len(ret.value) :
            /\ ret.value[k].name # <<>>
            /\ Range(ret.value[k].name) \cap (WhiteSpace \cup {",", "{"}) = {})

\* `.a,` on one line and `.b{` on the next give the class `.b` alone.
C30_Witness ==
  /\ StyleDone
  /\ styleBlocks = <<StyleBlock(ContinuedSelectorList)>>
  /\ ret = Returned(<<[type |-> "class", name |-> <<".", "b">>]>>)

(***************************************************************************)
(* extractTagsFromTemplate.  A template text is the list of the nodes      *)
(* written at its top level, each in the form @vue/compiler-dom makes of   *)
(* it; the parser rejects a text that holds a malformed node.              *)
(***************************************************************************)
MaxTemplateSize == 4

ElementNode(tag, children) == [type |-> "ELEMENT", tag |-> tag, children |-> children]

\* `<div>` never closed
MalformedNode == [type |-> "Malformed"]

RECURSIVE TemplateNodes(_), TemplateForests(_)
\* The nodes of n nodes in all, and the lists of nodes of m nodes in all.
TemplateNodes(n) ==
  (IF n = 1 THEN {[type |-> "TEXT"]} ELSE {})
    \cup {ElementNode(tag, children) : tag \in {"div", "span"}, children \in TemplateForests(n - 1)}

TemplateForests(m) ==
  IF m = 0 THEN {<<>>}
  ELSE UNION {{<<node>> \o rest : node \in TemplateNodes(j), rest \in TemplateForests(m - j)} :
               j \in 1..m}

\* parseTemplate(templateContent): the root of the tree, or Null when the
\* parser throws.
parseTemplate(text) ==
  IF \E k \in 1..Len(text) : text[k] = MalformedNode THEN Null
  ELSE [type |-> "ROOT", children |-> text]

\* walk adding the tag of a node after those of its children.
RECURSIVE walkChildrenFirst(_, _), forEachChildFirst(_, _)
walkChildrenFirst(set, node) ==
  LET below == IF "children" \in DOMAIN node
               THEN forEachChildFirst(set, node.children) ELSE set
  IN  IF "tag" \in DOMAIN node THEN add(below, node.tag) ELSE below

forEachChildFirst(set, children) ==
  IF Len(children) = 0 THEN set
  ELSE forEachChildFirst(walkChildrenFirst(set, Head(children)), Tail(children))

RECURSIVE walk(_, _), forEachChild(_, _)
\* `const walk = (node) => { ... }`: the tags after the walk of a node.
walk(set, node) ==
  LET added == IF "tag" \in DOMAIN node THEN add(set, node.tag) ELSE set
  IN  IF "children" \in DOMAIN node THEN forEachChild(added, node.children) ELSE added

\* node.children.forEach(walk)
forEachChild(set, children) ==
  IF Len(children) = 0 THEN set
  ELSE forEachChild(walk(set, Head(children)), Tail(children))

\* A call of extractTagsFromTemplate(templateContent).
TemplateInit ==
  LET
    Templates ==
      UNION {TemplateForests(m) : m \in 0..MaxTemplateSize}
        \cup {<<MalformedNode>>, <<ElementNode("div", <<>>), MalformedNode>>,
              \* `{{ x }}<MyComponent>{{ x }}</MyComponent>`
              <<[type |-> "INTERPOLATION"],
                ElementNode("MyComponent", <<[type |-> "INTERPOLATION"]>>)>>}
  IN  /\ fn = "extractTagsFromTemplate"
      /\ templateContent \in Templates
      /\ tags = <<>>
      /\ ast = Null
      /\ pc = "call"
      /\ i = 1
      /\ diag = <<>>
      /\ threw = FALSE
      /\ ret = Null
      /\ NoScript /\ NoStyle /\ NoFile /\ NoProject

\* `const tags = new Set<string>(); const ast = parseTemplate(templateContent);`
\* An exception of the parser leaves the function.
ParseTemplate ==
  /\ pc = "call"
  /\ tags' = <<>>
  /\ ast' = parseTemplate(templateContent)
  /\ threw' = (ast' = Null)
  /\ pc' = IF threw' THEN "thrown" ELSE "walk"
  /\ UNCHANGED <<fn, scriptContent, sourceChars, typeNode, i, exports, imports, props, diag,
                 ret, templateContent, styleVars, fileVars,
                 projectVars>>

\* `walk(ast);`
Walk ==
  /\ pc = "walk"
  /\ tags' = walk(tags, ast)
  /\ pc' = "return"
  /\ UNCHANGED <<fn, scriptContent, sourceChars, typeNode, ast, i, exports, imports, props, diag,
                 threw, ret, templateContent, styleVars, fileVars,
                 projectVars>>

\* `return [...tags];`
ReturnTags ==
  /\ pc = "return"
  /\ ret' = Returned(tags)
  /\ pc' = "done"
  /\ UNCHANGED <<fn, scriptContent, sourceChars, typeNode, ast, i, exports, imports, props, diag,
                 threw, templateVars, styleVars, fileVars,
                 projectVars>>

TemplateSpec == TemplateInit /\ [][ParseTemplate \/ Walk \/ ReturnTags]_vars

(***************************************************************************)
(* Properties of extractTagsFromTemplate.                                  *)
(***************************************************************************)
TemplateDone == pc = "done" /\ fn = "extractTagsFromTemplate"

\* The tag names of the nodes reachable through `children`, a node before
\* the nodes below it and before the nodes written after it.
RECURSIVE TagsInPreOrder(_)
TagsInPreOrder(nodes) ==
  Flatten([k \in 1..Len(nodes) |->
             (IF nodes[k].type = "ELEMENT" THEN <<nodes[k].tag>> ELSE <<>>)
               \o (IF "children" \in DOMAIN nodes[k]
                   THEN TagsInPreOrder(nodes[k].children) ELSE <<>>)])

\* C18: the function returns every tag name carried by a node reachable
\* through the `children` arrays of the parsed template, each once, in the
\* order in which the names are first met in pre-order; a template without
\* elements, the empty template included, yields the empty sequence.
C18_TagsOnceInPreOrder ==
  TemplateDone =>
    LET met == TagsInPreOrder(templateContent)
    IN  /\ NoDuplicates(ret.value)
        /\ Range(ret.value) = Range(met)
        /\ \A k \in 1..Len(ret.value) : \A j \in 1..(k - 1) :
             FirstMet(ret.value[j], met) < FirstMet(ret.value[k], met)
        /\ templateContent = <<>> => ret = Returned(<<>>)

C18_Witness ==
  /\ TemplateDone
  /\ templateContent = <<ElementNode("span", <<ElementNode("div", <<[type |-> "TEXT"]>>)>>),
                         ElementNode("span", <<>>)>>
  /\ ret = Returned(<<"span", "div">>)

(***************************************************************************)
(* The functions as their callers see them: what a call returns and what   *)
(* it logs.                                                                *)
(***************************************************************************)
RECURSIVE forEachExportNode(_, _)
forEachExportNode(e, body) ==
  IF Len(body) = 0 THEN e ELSE forEachExportNode(visitExportNode(e, Head(body)), Tail(body))

parseExports(text) ==
  LET tree == babelParse(text)
  IN  IF tree = Null THEN catchReturn("parseExports")
      ELSE forEachExportNode(EmptyExports, tree.program.body)

RECURSIVE forEachImportNode(_, _)
forEachImportNode(list, body) ==
  IF Len(body) = 0 THEN list
  ELSE forEachImportNode(visitImportNode(list, Head(body)), Tail(body))

parseImports(text) ==
  LET tree == babelParse(text)
  IN  IF tree = Null THEN catchReturn("parseImports")
      ELSE forEachImportNode(<<>>, tree.program.body)

RECURSIVE forEachPropsNode(_, _, _)
forEachPropsNode(list, body, chars) ==
  IF Len(body) = 0 THEN list
  ELSE forEachPropsNode(visitPropsNode(list, Head(body), chars), Tail(body), chars)

parseProps(text, chars) ==
  LET tree == babelParse(text)
  IN  IF tree = Null THEN catchReturn("parseProps")
      ELSE forEachPropsNode(<<>>, tree.program.body, chars)

\* The console.error calls of a call of parseExports, parseImports or
\* parseProps on a text.
consoleErrors(f, text, debug) == IF babelParse(text) = Null THEN catchLog(f, debug) ELSE <<>>

RECURSIVE forEachBlock(_, _)
forEachBlock(set, blocks) ==
  IF Len(blocks) = 0 THEN set ELSE forEachBlock(visitBlock(set, Head(blocks)), Tail(blocks))

extractClassesFromStyle(blocks) ==
  LET set == forEachBlock(<<>>, blocks)
  IN  [k \in 1..Len(set) |-> classify(set[k])]

\* The tags returned, or Null when the template parser throws, which the
\* function does not catch.
extractTagsFromTemplate(text) ==
  LET tree == parseTemplate(text)
  IN  IF tree = Null THEN Null ELSE Returned(walk(<<>>, tree))

(***************************************************************************)
(* analyzeVueFile and analyzeTsFiles.  A file may be unreadable; the       *)
(* content of a component file is given by what vueParse makes of it, its  *)
(* descriptor, unless vueParse throws on it; the content of a module file  *)
(* is a source text.                                                       *)
(***************************************************************************)
\* A block of a component file: descriptor.script, .scriptSetup, .template.
Block(blockContent) == [content |-> blockContent]

ImportOfA == ImportDeclaration(<<ImportSpecifier("ImportDefaultSpecifier", "", "a")>>, "mod")

\* A call of analyzeVueFile(filePath) or of analyzeTsFiles(filePath).
FileInit ==
  LET
    VueContents ==
      LET
        ScriptTexts == {<<>>, <<ImportOfA>>, <<ImportOfA, NameAndNickname>>, <<Invalid>>}
        TemplateTexts ==
          {<<>>, <<ElementNode("div", <<ElementNode("span", <<>>)>>)>>, <<MalformedNode>>}
      IN  [decomposable : BOOLEAN,
           descriptor : [script : {Null} \cup {Block(t) : t \in ScriptTexts},
                         scriptSetup : {Null, Block(<<NameAndNickname>>)},
                         template : {Null} \cup {Block(t) : t \in TemplateTexts},
                         styles : {<<>>, <<StyleBlock(<<".", "a", "{">>)>>}]]
    TsContents ==
      {<<>>, <<ImportOfA>>, <<Invalid>>, <<ImportOfA, Invalid>>,
       <<ImportOfA, ExportNamedDeclaration(Declaration("FunctionDeclaration", Identifier("b")))>>}
  IN  /\ \/ /\ fn = "analyzeVueFile"
            /\ file \in [readable : BOOLEAN, content : VueContents]
         \/ /\ fn = "analyzeTsFiles"
            /\ file \in [readable : BOOLEAN, content : TsContents]
      /\ content = Null
      /\ descriptor = Null
      /\ templateTags = <<>>
      /\ styleClasses = <<>>
      /\ ast = Null
      /\ pc = "readFile"
      /\ i = 1
      /\ diag = <<>>
      /\ threw = FALSE
      /\ ret = Null
      /\ parsed = <<>>
      /\ NoScript /\ NoStyle /\ NoTemplate /\ NoProject

\* `const content = await fs.readFile(filePath, 'utf-8');`
ReadFile ==
  /\ pc = "readFile"
  /\ threw' = ~file.readable
  /\ content' = IF file.readable THEN file.content ELSE content
  /\ pc' = IF threw' THEN "catch"
           ELSE IF fn = "analyzeVueFile" THEN "vueParse" ELSE "imports"
  /\ UNCHANGED <<fn, scriptContent, sourceChars, typeNode, ast, i, exports, imports, props, diag,
                 ret, file, descriptor, templateTags, styleClasses, parsed, styleVars,
                 templateVars, projectVars>>

\* descriptor.scriptSetup?.content || descriptor.script?.content || ''
activeScriptSetupFirst(d) ==
  IF d.scriptSetup # Null /\ d.scriptSetup.content # <<>> THEN d.scriptSetup.content
  ELSE IF d.script # Null /\ d.script.content # <<>> THEN d.script.content
  ELSE <<>>

\* descriptor.script?.content || descriptor.scriptSetup?.content || ''
activeScript(d) ==
  IF d.script # Null /\ d.script.content # <<>> THEN d.script.content
  ELSE IF d.scriptSetup # Null /\ d.scriptSetup.content # <<>> THEN d.scriptSetup.content
  ELSE <<>>

\* `const { descriptor } = vueParse(content);` and
\* `const scriptContent = descriptor.script?.content || descriptor.scriptSetup?.content || '';`
VueParse ==
  /\ pc = "vueParse"
  /\ threw' = ~content.decomposable
  /\ descriptor' = IF threw' THEN descriptor ELSE content.descriptor
  /\ scriptContent' = IF threw' THEN scriptContent ELSE activeScript(content.descriptor)
  /\ sourceChars' = PropsChars
  /\ pc' = IF threw' THEN "catch" ELSE "template"
  /\ UNCHANGED <<fn, typeNode, ast, i, exports, imports, props, diag, ret, file, content,
                 templateTags, styleClasses, parsed, styleVars, templateVars, projectVars>>

\* `const templateTags = descriptor.template?.content ? extractTagsFromTemplate(...) : [];`
ExtractTags ==
  /\ pc = "template"
  /\ LET called == descriptor.template # Null /\ descriptor.template.content # <<>>
         tagsOf == IF called THEN extractTagsFromTemplate(descriptor.template.content)
                   ELSE Returned(<<>>)
     IN  /\ threw' = (tagsOf = Null)
         /\ templateTags' = IF threw' THEN templateTags ELSE tagsOf.value
         /\ pc' = IF threw' THEN "catch" ELSE "styles"
  /\ UNCHANGED <<fn, scriptContent, sourceChars, typeNode, ast, i, exports, imports, props, diag,
                 ret, file, content, descriptor, styleClasses, parsed, styleVars, templateVars,
                 projectVars>>

\* `const styleClasses = descriptor.styles.length ? extractClassesFromStyle(...) : [];`
ExtractClasses ==
  /\ pc = "styles"
  /\ styleClasses' = IF Len(descriptor.styles) # 0
                     THEN extractClassesFromStyle(descriptor.styles) ELSE <<>>
  /\ pc' = "imports"
  /\ UNCHANGED <<fn, scriptContent, sourceChars, typeNode, ast, i, exports, imports, props, diag,
                 threw, ret, file, content, descriptor, templateTags, parsed, styleVars,
                 templateVars, projectVars>>

\* `const imports = scriptContent ? parseImports(scriptContent) : [];` in
\* analyzeVueFile, `const imports = parseImports(content);` in analyzeTsFiles.
ParseImports ==
  /\ pc = "imports"
  /\ LET text == IF fn = "analyzeVueFile" THEN scriptContent ELSE content
         called == fn = "analyzeTsFiles" \/ text # <<>>
     IN  /\ imports' = IF called THEN parseImports(text) ELSE <<>>
         /\ parsed' = IF called THEN Append(parsed, text) ELSE parsed
         /\ \E debug \in BOOLEAN :
              diag' = diag \o (IF called THEN consoleErrors("parseImports", text, debug)
                               ELSE <<>>)
  /\ pc' = IF fn = "analyzeVueFile" THEN "props" ELSE "exports"
  /\ UNCHANGED <<fn, scriptContent, sourceChars, typeNode, ast, i, exports, props, threw, ret,
                 file, content, descriptor, templateTags, styleClasses, styleVars, templateVars,
                 projectVars>>

\* `const props = scriptContent ? parseProps(scriptContent) : [];`
ParseProps ==
  /\ pc = "props"
  /\ props' = IF scriptContent # <<>> THEN parseProps(scriptContent, sourceChars) ELSE <<>>
  /\ parsed' = IF scriptContent # <<>> THEN Append(parsed, scriptContent) ELSE parsed
  /\ \E debug \in BOOLEAN :
       diag' = diag \o (IF scriptContent # <<>>
                        THEN consoleErrors("parseProps", scriptContent, debug) ELSE <<>>)
  /\ pc' = "return"
  /\ UNCHANGED <<fn, scriptContent, sourceChars, typeNode, ast, i, exports, imports, threw, ret,
                 file, content, descriptor, templateTags, styleClasses, styleVars, templateVars,
                 projectVars>>

\* `const exports = parseExports(content);`
ParseExports ==
  /\ pc = "exports"
  /\ exports' = parseExports(content)
  /\ parsed' = Append(parsed, content)
  /\ \E debug \in BOOLEAN : diag' = diag \o consoleErrors("parseExports", content, debug)
  /\ pc' = "return"
  /\ UNCHANGED <<fn, scriptContent, sourceChars, typeNode, ast, i, imports, props, threw, ret,
                 file, content, descriptor, templateTags, styleClasses, styleVars, templateVars,
                 projectVars>>

\* `return { templateTags, imports, props, styleClasses }`, `return { imports, exports }`
ReturnAnalysis ==
  /\ pc = "return"
  /\ ret' = Returned(IF fn = "analyzeVueFile"
                     THEN [imports |-> imports, templateTags |-> templateTags,
                           props |-> props, styleClasses |-> styleClasses]
                     ELSE [imports |-> imports, exports |-> exports])
  /\ pc' = "done"
  /\ UNCHANGED <<fn, scriptContent, sourceChars, typeNode, ast, i, exports, imports, props, diag,
                 threw, fileVars, styleVars, templateVars, projectVars>>

\* The catch block of analyzeVueFile and of analyzeTsFiles.
CatchAnalysis ==
  /\ pc = "catch"
  /\ threw' = FALSE
  /\ \E debug \in BOOLEAN : diag' = diag \o catchLog(fn, debug)
  /\ ret' = Returned(catchReturn(fn))
  /\ pc' = "done"
  /\ UNCHANGED <<fn, scriptContent, sourceChars, typeNode, ast, i, exports, imports, props,
                 fileVars, styleVars, templateVars, projectVars>>

FileSpec ==
  FileInit /\ [][\/ ReadFile \/ VueParse \/ ExtractTags \/ ExtractClasses \/ ParseImports
                \/ ParseProps \/ ParseExports \/ ReturnAnalysis \/ CatchAnalysis]_vars

(***************************************************************************)
(* Properties of analyzeVueFile and analyzeTsFiles, stated over FileSpec.  *)
(***************************************************************************)
FileDone == pc = "done" /\ fn \in {"analyzeVueFile", "analyzeTsFiles"}

\* The steps that can fail, told from the file the call was given.
ReadFails == ~file.readable

DecomposerThrows == fn = "analyzeVueFile" /\ file.readable /\ ~file.content.decomposable

Decomposed == fn = "analyzeVueFile" /\ file.readable /\ file.content.decomposable

TemplateParserThrows ==
  /\ Decomposed
  /\ file.content.descriptor.template # Null
  /\ file.content.descriptor.template.content # <<>>
  /\ parseTemplate(file.content.descriptor.template.content) = Null

ScriptParserThrows ==
  \/ fn = "analyzeTsFiles" /\ file.readable /\ babelParse(file.content) = Null
  \/ /\ Decomposed
     /\ ~TemplateParserThrows
     /\ scriptContent # <<>>
     /\ babelParse(scriptContent) = Null

\* The console.error calls of the call, the stack traces of DEBUG aside.
Diagnostics == SelectSeq(diag, LAMBDA line : line # "Stack trace:")

\* C19: analyzeVueFile and analyzeTsFiles never propagate a failure: whenever
\* the file read, the component decomposer, the template parser or the script
\* parser fails, the call still returns, and it returns the all-empty default
\* shape.
C19_FailureGivesEmptyDefaults ==
  FileDone /\ (ReadFails \/ DecomposerThrows \/ TemplateParserThrows \/ ScriptParserThrows) =>
    /\ ~threw
    /\ ret = Returned(catchReturn(fn))

\* C20: a call in which the external parser or the decomposer throws emits
\* exactly one diagnostic and returns the all-empty default shape.
C20_ExactlyOneDiagnostic ==
  FileDone /\ (DecomposerThrows \/ TemplateParserThrows \/ ScriptParserThrows) =>
    /\ Len(Diagnostics) = 1
    /\ ret = Returned(catchReturn(fn))

\* C25: analyzeVueFile analyses one script text: the content of the script
\* section when it is non-empty, otherwise the content of the setup script
\* section when that is non-empty, otherwise none.  Every text handed to the
\* script parser is that text, and imports and props are those of that
\* text, so with both sections non-empty they come from the script section
\* only; with neither, imports and props are [], the script parser is not
\* run, and templateTags and styleClasses are still computed.
C25_OneActiveScript ==
  (FileDone /\ Decomposed /\ ~TemplateParserThrows) =>
    LET d == file.content.descriptor
        script == IF d.script = Null THEN <<>> ELSE d.script.content
        setup == IF d.scriptSetup = Null THEN <<>> ELSE d.scriptSetup.content
        active == IF script # <<>> THEN script ELSE setup
    IN  /\ \A k \in 1..Len(parsed) : parsed[k] = active
        /\ active # <<>> =>
             /\ parsed # <<>>
             /\ ret.value.imports = parseImports(active)
             /\ ret.value.props = parseProps(active, sourceChars)
        /\ active = <<>> =>
             /\ parsed = <<>>
             /\ diag = <<>>
             /\ ret.value.imports = <<>>
             /\ ret.value.props = <<>>
             /\ ret.value.templateTags =
                  (IF d.template # Null /\ d.template.content # <<>>
                   THEN extractTagsFromTemplate(d.template.content).value ELSE <<>>)
             /\ ret.value.styleClasses =
                  (IF Len(d.styles) # 0 THEN extractClassesFromStyle(d.styles) ELSE <<>>)

\* `<script>import a from "mod"</script>` beside a setup script that calls
\* defineProps: the import is found, the props are not.
C25_Witness ==
  /\ FileDone
  /\ Decomposed
  /\ file.content.descriptor.script = Block(<<ImportOfA>>)
  /\ file.content.descriptor.scriptSetup = Block(<<NameAndNickname>>)
  /\ parsed = <<<<ImportOfA>>, <<ImportOfA>>>>
  /\ ret.value.imports = <<[importedItem |-> "a", source |-> "mod"]>>
  /\ ret.value.props = <<>>

(***************************************************************************)
(* getAllFiles.  A name is the list of the parts its dots separate         *)
(* (`a.vue` is <<"a", "vue">>, the dot file `.ts` is <<"", "ts">>), a path  *)
(* the list of its names, a directory the list of its entries in the order *)
(* fs.readdir lists them.                                                  *)
(***************************************************************************)
\* The number of entries of a directory tree.
MaxTreeSize == 3

FileEntry(name) == [name |-> name, isDirectory |-> FALSE]

DirEntry(name, entries) == [name |-> name, isDirectory |-> TRUE, entries |-> entries]

\* path.extname of a name: from its last dot on; nothing for a name without
\* a dot and for one whose only dot comes first.
extname(name) ==
  IF Len(name) = 1 \/ (Len(name) = 2 /\ name[1] = "") THEN ""
  ELSE "." \o name[Len(name)]

\* Array.prototype.includes
includes(list, value) == \E k \in 1..Len(list) : list[k] = value

\* The path given as `dir`.
ProjectDir == <<<<"project">>>>

\* The listings of n entries in all; the entries of one directory have
\* different names.
RECURSIVE Listings(_)
Listings(n) ==
  LET FileNames == {<<"a", "vue">>, <<"b", "ts">>, <<"index", "ts">>, <<"c", "js">>, <<"", "ts">>}
      DirNames == {<<"src">>, <<"dist">>, <<"lib", "ts">>}
      Entries(j) ==
        (IF j = 1 THEN {FileEntry(name) : name \in FileNames} ELSE {})
          \cup {DirEntry(name, entries) : name \in DirNames, entries \in Listings(j - 1)}
  IN  IF n = 0 THEN {<<>>}
      ELSE UNION {{l \in {<<entry>> \o rest : entry \in Entries(j), rest \in Listings(n - j)} :
                     \A k \in 2..Len(l) : l[k].name # l[1].name} :
                   j \in 1..n}

\* forOfFiles without the test of ignoreFiles.
RECURSIVE forOfFilesNoIgnoreFiles(_, _, _, _, _, _)
forOfFilesNoIgnoreFiles(results, listing, path, exts, paths, names) ==
  IF Len(listing) = 0 THEN results
  ELSE LET entry == Head(listing)
           fullPath == Append(path, entry.name)
       IN  forOfFilesNoIgnoreFiles(
             IF entry.isDirectory
             THEN IF ~includes(paths, entry.name)
                  THEN results
                         \o forOfFilesNoIgnoreFiles(<<>>, entry.entries, fullPath, exts, paths, names)
                  ELSE results
             ELSE IF includes(exts, extname(entry.name))
             THEN push(results, fullPath)
             ELSE results,
             Tail(listing), path, exts, paths, names)

\* The for-of loop over `files`, and the function.
RECURSIVE forOfFiles(_, _, _, _, _, _)
forOfFiles(results, listing, path, exts, paths, names) ==
  IF Len(listing) = 0 THEN results
  ELSE LET entry == Head(listing)
           fullPath == Append(path, entry.name)
       IN  forOfFiles(
             IF entry.isDirectory
             THEN IF ~includes(paths, entry.name)
                  THEN results \o forOfFiles(<<>>, entry.entries, fullPath, exts, paths, names)
                  ELSE results
             ELSE IF includes(exts, extname(entry.name)) /\ ~includes(names, entry.name)
             THEN push(results, fullPath)
             ELSE results,
             Tail(listing), path, exts, paths, names)

getAllFiles(path, listing, exts, paths, names) ==
  forOfFiles(<<>>, listing, path, exts, paths, names)

\* A call of getAllFiles(dir, extensions, igonrePaths, ignoreFiles), with
\* the default arguments or with others.
TreeInit ==
  /\ fn = "getAllFiles"
  /\ dir \in UNION {Listings(n) : n \in 0..MaxTreeSize}
  /\ \/ /\ extensions = <<".vue", ".ts">>
        /\ igonrePaths = <<<<"node_modules">>, <<"dist">>>>
        /\ ignoreFiles = <<<<"index", "ts">>, <<"analyzer", "test", "ts">>>>
     \/ /\ extensions = <<".js", ".ts">>
        /\ igonrePaths = <<<<"src">>>>
        /\ ignoreFiles = <<<<"b", "ts">>>>
  /\ files = <<>>
  /\ result = <<>>
  /\ ast = Null
  /\ pc = "call"
  /\ i = 1
  /\ diag = <<>>
  /\ threw = FALSE
  /\ ret = Null
  /\ NoScript /\ NoStyle /\ NoTemplate /\ NoFile

GetAllFiles ==
  /\ pc = "call"
  /\ fn = "getAllFiles"
  /\ ret' = Returned(getAllFiles(ProjectDir, dir, extensions, igonrePaths, ignoreFiles))
  /\ pc' = "done"
  /\ UNCHANGED <<fn, scriptContent, sourceChars, typeNode, ast, i, exports, imports, props, diag,
                 threw, styleVars, templateVars, fileVars, projectVars>>

TreeSpec == TreeInit /\ [][GetAllFiles]_vars

(***************************************************************************)
(* Properties of getAllFiles.                                              *)
(***************************************************************************)
TreeDone == pc = "done" /\ fn = "getAllFiles"

\* The paths of the entries of a listing, at every depth, from the listing.
RECURSIVE PathsIn(_)
PathsIn(listing) ==
  UNION {{<<listing[k].name>>}
           \cup (IF listing[k].isDirectory
                 THEN {<<listing[k].name>> \o p : p \in PathsIn(listing[k].entries)}
                 ELSE {}) :
         k \in 1..Len(listing)}

\* The entry at a path, and the places of the names of the path in the
\* listings they stand in.
RECURSIVE EntryAt(_, _)
EntryAt(listing, p) ==
  LET entry == CHOOSE e \in Range(listing) : e.name = p[1]
  IN  IF Len(p) = 1 THEN entry ELSE EntryAt(entry.entries, Tail(p))

RECURSIVE PlacesOf(_, _)
PlacesOf(listing, p) ==
  LET k == CHOOSE j \in 1..Len(listing) : listing[j].name = p[1]
  IN  IF Len(p) = 1 THEN <<k>> ELSE <<k>> \o PlacesOf(listing[k].entries, Tail(p))

\* s comes before t where they first differ.
ComesBefore(s, t) ==
  \E k \in 1..Min(Len(s), Len(t)) : s[k] < t[k] /\ \A j \in 1..(k - 1) : s[j] = t[j]

\* The entry at the path is a file getAllFiles is to return.
Wanted(p) ==
  LET entry == EntryAt(dir, p)
  IN  /\ ~entry.isDirectory
      /\ extname(entry.name) \in Range(extensions)
      /\ entry.name \notin Range(ignoreFiles)
      /\ \A k \in 1..(Len(p) - 1) : p[k] \notin Range(igonrePaths)

MaxFiles == 2

\* path.relative(from, to): the names of `to` after what it shares with
\* `from`, behind one ".." for every other name of `from`.
relative(from, to) ==
  LET shared == CHOOSE n \in 0..Min(Len(from), Len(to)) :
                  /\ \A k \in 1..n : from[k] = to[k]
                  /\ n < Min(Len(from), Len(to)) => from[n + 1] # to[n + 1]
  IN  [k \in 1..(Len(from) - shared) |-> <<"", "", "">>] \o SubSeq(to, shared + 1, Len(to))

\* analysis with exports on every record.
analysisAlwaysExports(filePath, value) ==
  LET fileExtension == extname(filePath[Len(filePath)])
  IN  [file |-> relative(ProjectDir, filePath),
       imports |-> IF fileExtension \in {".vue", ".ts"} THEN value.imports ELSE <<>>,
       templateTags |-> IF fileExtension = ".vue" THEN value.templateTags ELSE <<>>,
       props |-> IF fileExtension = ".vue" THEN value.props ELSE <<>>,
       classes |-> IF fileExtension = ".vue" THEN value.styleClasses ELSE <<>>,
       exports |-> IF fileExtension = ".ts" THEN value.exports ELSE EmptyExports]

\* `analysis` when it is pushed: the record of the file at filePath, filled
\* from the value analyzeVueFile or analyzeTsFiles resolved to.
analysis(filePath, value) ==
  LET fileExtension == extname(filePath[Len(filePath)])
      initial == [file |-> relative(ProjectDir, filePath), imports |-> <<>>,
                  templateTags |-> <<>>, props |-> <<>>, classes |-> <<>>]
  IN  IF fileExtension = ".vue"
      THEN [initial EXCEPT !.imports = value.imports, !.templateTags = value.templateTags,
                           !.props = value.props, !.classes = value.styleClasses]
      ELSE IF fileExtension = ".ts"
      THEN [file |-> initial.file, imports |-> value.imports,
            templateTags |-> initial.templateTags, props |-> initial.props,
            classes |-> initial.classes, exports |-> value.exports]
      ELSE initial

\* A call of analyzeProject(projectDir) on a directory of up to MaxFiles
\* component and module files, at the root or in a subdirectory, next to
\* entries getAllFiles leaves out.
ProjectInit ==
  LET
    \* A component file holds what vueParse makes of it, a module file a text.
    VueEntry(name, readable, component) ==
      [name |-> name, isDirectory |-> FALSE, readable |-> readable, component |-> component]
    TsEntry(name, readable, text) ==
      [name |-> name, isDirectory |-> FALSE, readable |-> readable, text |-> text]
    Component(decomposable, script, template) ==
      [decomposable |-> decomposable,
       descriptor |-> [script |-> script, scriptSetup |-> Null, template |-> template,
                       styles |-> <<StyleBlock(<<".", "a", "{">>)>>]]
    DivTemplate == Block(<<ElementNode("div", <<>>)>>)
    VueContents ==
      {Component(TRUE, Block(<<ImportOfA>>), DivTemplate),
       Component(TRUE, Block(<<Invalid>>), DivTemplate),
       Component(TRUE, Block(<<ImportOfA>>), Block(<<MalformedNode>>)),
       Component(FALSE, Block(<<ImportOfA>>), DivTemplate),
       [decomposable |-> TRUE,
        descriptor |-> [script |-> Null, scriptSetup |-> Null, template |-> Null,
                        styles |-> <<>>]]}
    TsContents ==
      {<<>>, <<Invalid>>,
       <<ImportOfA, ExportNamedDeclaration(Declaration("FunctionDeclaration", Identifier("b")))>>}
    ProjectFiles ==
      {VueEntry(name, TRUE, c) : name \in {<<"a", "vue">>, <<"c", "vue">>}, c \in VueContents}
        \cup {TsEntry(name, TRUE, c) : name \in {<<"b", "ts">>, <<"d", "ts">>}, c \in TsContents}
        \cup {VueEntry(<<"a", "vue">>, FALSE, Null), TsEntry(<<"b", "ts">>, FALSE, <<>>)}
    RECURSIVE FileLists(_)
    FileLists(n) ==
      IF n = 0 THEN {<<>>}
      ELSE {l \in {<<entry>> \o rest : entry \in ProjectFiles, rest \in FileLists(n - 1)} :
              \A k \in 2..Len(l) : l[k].name # l[1].name}
    Skipped == TsEntry(<<"index", "ts">>, TRUE, <<ImportOfA>>)
    Trees(l) ==
      IF Len(l) = 0 THEN {l, <<Skipped>>}
      ELSE {l,
            <<DirEntry(<<"src">>, <<Head(l)>>), Skipped>> \o Tail(l),
            <<DirEntry(<<"dist">>, <<Head(l)>>)>> \o Tail(l)}
  IN  /\ fn = "analyzeProject"
      /\ dir \in UNION {Trees(l) : l \in UNION {FileLists(n) : n \in 0..MaxFiles}}
      /\ extensions = <<".vue", ".ts">>
      /\ igonrePaths = <<<<"node_modules">>, <<"dist">>>>
      /\ ignoreFiles = <<<<"index", "ts">>, <<"analyzer", "test", "ts">>>>
      /\ files = <<>>
      /\ result = <<>>
      /\ ast = Null
      /\ pc = "getAllFiles"
      /\ i = 1
      /\ diag = <<>>
      /\ threw = FALSE
      /\ ret = Null
      /\ NoScript /\ NoStyle /\ NoTemplate /\ NoFile

\* `const files = await getAllFiles(projectDir);`
GetFiles ==
  /\ pc = "getAllFiles"
  /\ fn = "analyzeProject"
  /\ files' = getAllFiles(ProjectDir, dir, extensions, igonrePaths, ignoreFiles)
  /\ pc' = "forOf"
  /\ UNCHANGED <<fn, scriptContent, sourceChars, typeNode, ast, i, exports, imports, props, diag,
                 threw, ret, styleVars, templateVars, fileVars, dir, extensions, igonrePaths,
                 ignoreFiles, result>>

\* The head of the loop body: the call of analyzeVueFile(file) or of
\* analyzeTsFiles(file), or the push at once for a file of another kind.
ForOfFile ==
  /\ pc = "forOf"
  /\ Len(result) < Len(files)
  /\ LET filePath == files[Len(result) + 1]
         fileExtension == extname(filePath[Len(filePath)])
         entry == EntryAt(dir, SubSeq(filePath, Len(ProjectDir) + 1, Len(filePath)))
     IN  IF fileExtension \in {".vue", ".ts"}
         THEN /\ fn' = IF fileExtension = ".vue" THEN "analyzeVueFile" ELSE "analyzeTsFiles"
              /\ file' = [readable |-> entry.readable,
                        content |-> IF fileExtension = ".vue" THEN entry.component
                                    ELSE entry.text]
              /\ pc' = "readFile"
              /\ result' = result
         ELSE /\ result' = push(result, analysis(filePath, Null))
              /\ UNCHANGED <<fn, file, pc>>
  /\ content' = Null
  /\ descriptor' = Null
  /\ templateTags' = <<>>
  /\ styleClasses' = <<>>
  /\ parsed' = <<>>
  /\ scriptContent' = <<>>
  /\ sourceChars' = <<>>
  /\ exports' = EmptyExports
  /\ imports' = <<>>
  /\ props' = <<>>
  /\ threw' = FALSE
  /\ ret' = Null
  /\ UNCHANGED <<typeNode, ast, i, diag, styleVars, templateVars, dir, extensions, igonrePaths,
                 ignoreFiles, files>>

\* result.unshift(analysis) in the place of result.push(analysis).
PushAnalysisUnshift ==
  /\ pc = "done"
  /\ result' = <<analysis(files[Len(result) + 1], ret.value)>> \o result
  /\ pc' = "forOf"
  /\ UNCHANGED <<fn, scriptContent, sourceChars, typeNode, ast, i, exports, imports, props, diag,
                 threw, ret, styleVars, templateVars, fileVars, dir, extensions, igonrePaths,
                 ignoreFiles, files>>

\* The assignments to `analysis` after the call, and `result.push(analysis);`
PushAnalysis ==
  /\ pc = "done"
  /\ result' = push(result, analysis(files[Len(result) + 1], ret.value))
  /\ pc' = "forOf"
  /\ UNCHANGED <<fn, scriptContent, sourceChars, typeNode, ast, i, exports, imports, props, diag,
                 threw, ret, styleVars, templateVars, fileVars, dir, extensions, igonrePaths,
                 ignoreFiles, files>>

\* `return result;`
ReturnResult ==
  /\ pc = "forOf"
  /\ Len(result) = Len(files)
  /\ fn' = "analyzeProject"
  /\ ret' = Returned(result)
  /\ pc' = "returned"
  /\ UNCHANGED <<scriptContent, sourceChars, typeNode, ast, i, exports, imports, props, diag,
                 threw, styleVars, templateVars, fileVars, projectVars>>

ProjectSpec ==
  ProjectInit /\ [][\/ GetFiles \/ ForOfFile \/ PushAnalysis \/ ReturnResult
                   \/ ReadFile \/ VueParse \/ ExtractTags \/ ExtractClasses \/ ParseImports
                   \/ ParseProps \/ ParseExports \/ ReturnAnalysis \/ CatchAnalysis]_vars

(***************************************************************************)
(* Properties of analyzeProject, stated over ProjectSpec.                  *)
(***************************************************************************)
ProjectDone == pc = "returned" /\ fn = "analyzeProject"

\* The entry of the k-th discovered file, and the kind of the file.
Discovered(k) == EntryAt(dir, SubSeq(files[k], Len(ProjectDir) + 1, Len(files[k])))

IsComponent(k) == extname(files[k][Len(files[k])]) = ".vue"

IsModule(k) == extname(files[k][Len(files[k])]) = ".ts"

\* What can fail in the analysis of the k-th file.
ReadFailsAt(k) == ~Discovered(k).readable

DecomposerFailsAt(k) ==
  IsComponent(k) /\ Discovered(k).readable /\ ~Discovered(k).component.decomposable

TemplateFailsAt(k) ==
  /\ IsComponent(k) /\ Discovered(k).readable /\ Discovered(k).component.decomposable
  /\ LET template == Discovered(k).component.descriptor.template
     IN  template # Null /\ template.content # <<>> /\ parseTemplate(template.content) = Null

\* The text of the k-th file that goes to the script parser.
ScriptOf(k) ==
  IF IsModule(k) THEN Discovered(k).text ELSE activeScript(Discovered(k).component.descriptor)

ScriptFailsAt(k) ==
  /\ Discovered(k).readable
  /\ IsModule(k) \/ (Discovered(k).component.decomposable /\ ~TemplateFailsAt(k))
  /\ IsModule(k) \/ ScriptOf(k) # <<>>
  /\ babelParse(ScriptOf(k)) = Null

FailsAt(k) == ReadFailsAt(k) \/ DecomposerFailsAt(k) \/ TemplateFailsAt(k) \/ ScriptFailsAt(k)

\* The results of a record, and the results of the k-th file analyzed on
\* its own when nothing fails in it.
Results(record) == [f \in DOMAIN record \ {"file"} |-> record[f]]

ResultsAlone(k) ==
  IF IsModule(k)
  THEN [imports |-> parseImports(ScriptOf(k)), templateTags |-> <<>>, props |-> <<>>,
        classes |-> <<>>, exports |-> parseExports(ScriptOf(k))]
  ELSE LET d == Discovered(k).component.descriptor
       IN  [imports |-> IF ScriptOf(k) # <<>> THEN parseImports(ScriptOf(k)) ELSE <<>>,
            templateTags |-> IF d.template # Null /\ d.template.content # <<>>
                             THEN extractTagsFromTemplate(d.template.content).value ELSE <<>>,
            props |-> IF ScriptOf(k) # <<>> THEN parseProps(ScriptOf(k), PropsChars) ELSE <<>>,
            classes |-> IF Len(d.styles) # 0 THEN extractClassesFromStyle(d.styles) ELSE <<>>]

EmptyResults(k) ==
  IF IsModule(k)
  THEN [imports |-> <<>>, templateTags |-> <<>>, props |-> <<>>, classes |-> <<>>,
        exports |-> EmptyExports]
  ELSE [imports |-> <<>>, templateTags |-> <<>>, props |-> <<>>, classes |-> <<>>]

\* C21: in analyzeProject a file whose read or parse fails never aborts the
\* batch: whichever of the discovered files fail, the call returns with a
\* record for every file, the later ones included; the record of a failing
\* file has empty results, and the record of every other file is the one
\* the file gets on its own.
C21_FailingFileGetsEmptyRecord ==
  ProjectDone =>
    /\ Len(ret.value) = Len(files)
    /\ \A k \in 1..Len(files) :
         /\ ret.value[k].file = relative(ProjectDir, files[k])
         /\ FailsAt(k) => Results(ret.value[k]) = EmptyResults(k)
         /\ ~FailsAt(k) => Results(ret.value[k]) = ResultsAlone(k)

\* The part of C21 that holds: a record for every file, empty when the
\* read, the decomposer or the template parser fails, and otherwise the
\* file's own results, with no imports and props (and no exports) when the
\* script parser fails.
BatchNeverAborted ==
  ProjectDone =>
    /\ Len(ret.value) = Len(files)
    /\ \A k \in 1..Len(files) :
         /\ ret.value[k].file = relative(ProjectDir, files[k])
         /\ ReadFailsAt(k) \/ DecomposerFailsAt(k) \/ TemplateFailsAt(k)
              => Results(ret.value[k]) = EmptyResults(k)
         /\ ~(ReadFailsAt(k) \/ DecomposerFailsAt(k) \/ TemplateFailsAt(k))
              => Results(ret.value[k]) = ResultsAlone(k)

\* C22: analyzeProject returns one record per discovered file, in the order
\* of getAllFiles' result: once the loop has handled the first k files,
\* `result` holds k records, the j-th being the record of the j-th file; the
\* list of files does not change during the loop; a step that changes
\* `result` appends one record and leaves the records before it as they
\* were; the value returned is `result` with a record for every file.
C22_OneRecordPerFileInOrder ==
  /\ [](pc # "getAllFiles" =>
          /\ Len(result) <= Len(files)
          /\ \A j \in 1..Len(result) : result[j].file = relative(ProjectDir, files[j])
          /\ pc \notin {"forOf", "returned"} => fn \in {"analyzeVueFile", "analyzeTsFiles"}
          /\ ProjectDone => ret.value = result /\ Len(result) = Len(files))
  /\ [][/\ pc # "getAllFiles" => files' = files
        /\ result' # result =>
             /\ Len(result') = Len(result) + 1
             /\ SubSeq(result', 1, Len(result)) = result]_vars

\* Two records, of src/c.vue and then of b.ts.
C22_Witness ==
  /\ ProjectDone
  /\ Len(files) = 2
  /\ Len(ret.value) = 2
  /\ ret.value[1].file = <<<<"src">>, <<"c", "vue">>>>
  /\ ret.value[2].file = <<<<"b", "ts">>>>

IsList(value) == DOMAIN value = 1..Len(value)

====
